---- MODULE Spec2Model ----
(***************************************************************************)
(* A model of the core of the aureon node: the transaction mempool         *)
(* (aureon-node/src/mempool.rs), the state processor with its simulated    *)
(* twin (state_processor.rs, simulated_processor.rs) over the key-value    *)
(* store (db.rs) and the trie (mpt/trie.rs), the consensus engines         *)
(* (consensus/pow.rs, consensus/pos.rs), the block producer's loop         *)
(* (block_producer.rs), the indexer (indexer.rs), the block                *)
(* synchronisation state (sync.rs), the network (network/mod.rs) and the   *)
(* cross-shard two-phase commit (cross_shard_protocol.rs).                 *)
(***************************************************************************)
EXTENDS Integers, Sequences, FiniteSets, TLC

(***************************************************************************)
(* Bounds of the model.                                                    *)
(***************************************************************************)
\* largest transaction nonce submitted to the mempool
MaxNonce == 2
\* the capacity the mempool is constructed with (with_capacity(max_size))
MaxSize == 2
\* number of add_transaction calls in one behaviour
MaxAdds == 3
\* largest count passed to take_transactions
MaxTake == 2

(***************************************************************************)
(* Transactions (types.rs).  Byte strings are sequences; an empty Vec<u8>  *)
(* is the empty sequence.                                                  *)
(***************************************************************************)
NoBytes == << >>

Senders == {"Alice", "Bob"}

\* the Ed25519 public keys in play
K1 == <<1>>
K2 == <<2>>
Keys == {K1, K2}

Transfer(to, amount) == [kind |-> "Transfer", to |-> to, amount |-> amount]

\* Transaction::transfer, with the nonce and public key the API then sets
MkTx(from, nonce, payload, pk) ==
    [from |-> from, nonce |-> nonce, gas_price |-> 1, payload |-> payload,
     signature |-> NoBytes, public_key |-> pk]

\* SHA-256 of the Debug rendering of a transaction: a collision-free digest
\* of all six fields
compute_tx_hash(tx) ==
    <<"sha256", tx.from, tx.nonce, tx.gas_price, tx.payload, tx.signature,
      tx.public_key>>

\* the message a transaction's signature covers: the hash of the
\* transaction with its signature field cleared
SigningHash(tx) == compute_tx_hash([tx EXCEPT !.signature = NoBytes])

\* an Ed25519 signature made with the secret key of `signer` over msg
Signature(signer, msg) == <<"ed25519", signer, msg>>

\* a signature that is not 64 bytes long
ShortSignature == <<"short">>

\* the transaction signed by the holder of `signer`
Sign(signer, tx) == [tx EXCEPT !.signature = Signature(signer, SigningHash(tx))]

\* crypto::verify_signature: Err for a signature or key of the wrong
\* length, else whether the signature is by that key over that message
verify_signature(message, signature, public_key) ==
    IF signature = ShortSignature THEN "Err"
    ELSE IF public_key \notin Keys THEN "Err"
    ELSE IF signature = Signature(public_key, message) THEN "True"
    ELSE "False"

(***************************************************************************)
(* The mempool (mempool.rs).  A mempool value mp is the record of its      *)
(* three locked fields.  An entry of the pending queue carries, beside the *)
(* transaction, the serial number of the add call that admitted it (seq),  *)
(* which the code does not store: it records the admission order.          *)
(***************************************************************************)
VARIABLES
    pending,         \* VecDeque<Transaction>, head first
    seen,            \* the keys of the seen map (its values are all true)
    account_nonces,  \* HashMap<String, u64>: a function on the senders recorded
    adds,            \* number of add_transaction calls made so far
    block,           \* the producer's batch: taken, not yet finalized
    accepted,        \* history: sender -> the nonces admitted for it, in order
    finalized,       \* history: the <<sender, nonce>> pairs finalized so far
    last             \* the last call and what it returned: [op, res]

mpVars == <<pending, seen, account_nonces, adds, block, accepted, finalized, last>>

Mp == [pending |-> pending, seen |-> seen, account_nonces |-> account_nonces]

\* TransactionMempool::with_capacity
with_capacity ==
    [pending |-> << >>, seen |-> {}, account_nonces |-> << >>]

Min(a, b) == IF a <= b THEN a ELSE b

\* the transactions of a sequence of queue entries
TxsOf(entries) == [i \in 1..Len(entries) |-> entries[i].tx]

\* HashMap::insert
Insert(map, key, value) == (key :> value) @@ map

\* whether verify_transaction_signature returns before verifying
SigSkipped(tx) == tx.signature = NoBytes \/ tx.public_key = NoBytes

verify_transaction_signature(tx) ==
    IF SigSkipped(tx) THEN "Ok"
    ELSE IF verify_signature(SigningHash(tx), tx.signature, tx.public_key) = "True"
         THEN "Ok"
         ELSE "BadSignature"

verify_nonce_nonstrict(nonces, tx) ==
    IF tx.from \in DOMAIN nonces /\ tx.nonce < nonces[tx.from]
    THEN "BadNonce" ELSE "Ok"

verify_nonce(nonces, tx) ==
    IF tx.from \in DOMAIN nonces /\ tx.nonce <= nonces[tx.from]
    THEN "BadNonce" ELSE "Ok"

add_transaction_unbounded(mp, tx, serial) ==
    IF verify_transaction_signature(tx) # "Ok"
    THEN [mp |-> mp, res |-> "BadSignature"]
    ELSE IF verify_nonce(mp.account_nonces, tx) # "Ok"
    THEN [mp |-> mp, res |-> "BadNonce"]
    ELSE IF compute_tx_hash(tx) \in mp.seen
    THEN [mp |-> mp, res |-> "Duplicate"]
    ELSE [mp |-> [pending |-> Append(mp.pending, [tx |-> tx, seq |-> serial]),
                  seen |-> mp.seen \cup {compute_tx_hash(tx)},
                  account_nonces |-> Insert(mp.account_nonces, tx.from, tx.nonce)],
          res |-> "Ok"]

add_transaction_dup_first(mp, tx, serial) ==
    IF verify_transaction_signature(tx) # "Ok"
    THEN [mp |-> mp, res |-> "BadSignature"]
    ELSE IF compute_tx_hash(tx) \in mp.seen
    THEN [mp |-> mp, res |-> "Duplicate"]
    ELSE IF verify_nonce(mp.account_nonces, tx) # "Ok"
    THEN [mp |-> mp, res |-> "BadNonce"]
    ELSE IF Len(mp.pending) >= MaxSize
    THEN [mp |-> mp, res |-> "Full"]
    ELSE [mp |-> [pending |-> Append(mp.pending, [tx |-> tx, seq |-> serial]),
                  seen |-> mp.seen \cup {compute_tx_hash(tx)},
                  account_nonces |-> Insert(mp.account_nonces, tx.from, tx.nonce)],
          res |-> "Ok"]

add_transaction_recording_first(mp, tx, serial) ==
    IF verify_transaction_signature(tx) # "Ok"
    THEN [mp |-> mp, res |-> "BadSignature"]
    ELSE IF verify_nonce(mp.account_nonces, tx) # "Ok"
    THEN [mp |-> mp, res |-> "BadNonce"]
    ELSE LET noted == [mp EXCEPT !.account_nonces = Insert(@, tx.from, tx.nonce)]
         IN  IF compute_tx_hash(tx) \in mp.seen
             THEN [mp |-> noted, res |-> "Duplicate"]
             ELSE IF Len(mp.pending) >= MaxSize
             THEN [mp |-> noted, res |-> "Full"]
             ELSE [mp |-> [pending |-> Append(mp.pending, [tx |-> tx, seq |-> serial]),
                           seen |-> mp.seen \cup {compute_tx_hash(tx)},
                           account_nonces |-> noted.account_nonces],
                   res |-> "Ok"]

\* add_transaction, run alone: the signature, then the nonce, then the
\* duplicate, then the capacity check, then the three updates
add_transaction(mp, tx, serial) ==
    IF verify_transaction_signature(tx) # "Ok"
    THEN [mp |-> mp, res |-> "BadSignature"]
    ELSE IF verify_nonce(mp.account_nonces, tx) # "Ok"
    THEN [mp |-> mp, res |-> "BadNonce"]
    ELSE IF compute_tx_hash(tx) \in mp.seen
    THEN [mp |-> mp, res |-> "Duplicate"]
    ELSE IF Len(mp.pending) >= MaxSize
    THEN [mp |-> mp, res |-> "Full"]
    ELSE [mp |-> [pending |-> Append(mp.pending, [tx |-> tx, seq |-> serial]),
                  seen |-> mp.seen \cup {compute_tx_hash(tx)},
                  account_nonces |-> Insert(mp.account_nonces, tx.from, tx.nonce)],
          res |-> "Ok"]

take_transactions_from_back(mp, count) ==
    LET n == Min(count, Len(mp.pending))
        m == Len(mp.pending)
        ret == [i \in 1..n |-> mp.pending[m + 1 - i]]
    IN  [mp |-> [mp EXCEPT !.pending = SubSeq(mp.pending, 1, m - n),
                           !.seen = mp.seen \ {compute_tx_hash(ret[i].tx) : i \in 1..n}],
         ret |-> ret]

take_transactions_peeking(mp, count) ==
    [mp |-> mp, ret |-> SubSeq(mp.pending, 1, Min(count, Len(mp.pending)))]

take_transactions_keeping_seen(mp, count) ==
    LET n == Min(count, Len(mp.pending))
    IN  [mp |-> [mp EXCEPT !.pending = SubSeq(mp.pending, n + 1, Len(mp.pending))],
         ret |-> SubSeq(mp.pending, 1, n)]

\* take_transactions: pop_front up to count times, forgetting each hash
take_transactions(mp, count) ==
    LET n == Min(count, Len(mp.pending))
        ret == SubSeq(mp.pending, 1, n)
    IN  [mp |-> [mp EXCEPT !.pending = SubSeq(mp.pending, n + 1, Len(mp.pending)),
                           !.seen = mp.seen \ {compute_tx_hash(ret[i].tx) : i \in 1..n}],
         ret |-> ret]

RECURSIVE FinalizeNonces(_, _)
FinalizeNonces(nonces, txs) ==
    IF txs = << >> THEN nonces
    ELSE FinalizeNonces(Insert(nonces, Head(txs).from, Head(txs).nonce + 1), Tail(txs))

\* finalize_block_transactions: for each transaction in order, record
\* tx.nonce + 1 for its sender
finalize_block_transactions(mp, txs) ==
    [mp EXCEPT !.account_nonces = FinalizeNonces(mp.account_nonces, txs)]

\* Vec::retain
RECURSIVE Retain(_, _)
Retain(entries, hash) ==
    IF entries = << >> THEN << >>
    ELSE IF compute_tx_hash(Head(entries).tx) # hash
         THEN <<Head(entries)>> \o Retain(Tail(entries), hash)
         ELSE Retain(Tail(entries), hash)

\* remove_transaction
remove_transaction(mp, hash) ==
    IF hash \notin mp.seen THEN [mp |-> mp, res |-> FALSE]
    ELSE LET kept == Retain(mp.pending, hash)
         IN  [mp |-> [mp EXCEPT !.seen = mp.seen \ {hash}, !.pending = kept],
              res |-> Len(kept) < Len(mp.pending)]

\* clear
clear(mp) == [mp EXCEPT !.pending = << >>, !.seen = {}]

(***************************************************************************)
(* The account state: the key-value store (db.rs), the trie (mpt/trie.rs)  *)
(* and the two processors.  A u64 is scaled down to two bytes of ByteBase  *)
(* values each, so that arithmetic at the top of the range is reachable.   *)
(***************************************************************************)
\* number of values of one byte
ByteBase == 3
\* largest amount a transaction names
MaxAmount == 2
\* largest number of transactions in one block
MaxBlockLen == 2

\* number of values of a u64
U64Mod == ByteBase * ByteBase

Accounts == {"Alice", "Bob"}

\* u64::to_le_bytes
to_le_bytes(n) == <<n % ByteBase, n \div ByteBase>>

\* u64::from_le_bytes(bytes.try_into().unwrap_or_default()): a value that is
\* not a whole u64 reads as 0
from_le_bytes(bytes) ==
    IF Len(bytes) = 2 THEN bytes[1] + ByteBase * bytes[2] ELSE 0

VARIABLES
    db,               \* the live key-value store: account -> bytes
    trie,             \* the live trie: its root node, or NoNode
    overflow_checks,  \* whether the build panics on integer overflow
    crashed,          \* the process has panicked
    stLast            \* the last state call: [op, tx, root, sim]

stVars == <<db, trie, overflow_checks, crashed, stLast>>

NoNode == << >>

Stake(amount) == [kind |-> "Stake", to |-> "", amount |-> amount]
Unstake(amount) == [kind |-> "Unstake", to |-> "", amount |-> amount]
ContractDeploy == [kind |-> "ContractDeploy", to |-> "", amount |-> 0]

\* MerklePatriciaTrie::insert: the root becomes a leaf of the entry
TrieInsert(t, key, value) == <<"Leaf", key, value>>

\* MerklePatriciaTrie::get
TrieGet(t, key) == IF t # NoNode /\ t[2] = key THEN <<t[3]>> ELSE << >>

\* MerklePatriciaTrie::root_hash: Keccak-256 of the root's encoding, a
\* collision-free digest of the node; the empty vector for no root
root_hash(t) == IF t = NoNode THEN << >> ELSE <<"keccak256", t>>

\* Db::get / SnapshotDb::get, then the decoding of get_balance
get_balance(kv, account) ==
    IF account \in DOMAIN kv THEN from_le_bytes(kv[account]) ELSE 0

\* StateProcessor::set_balance on a state st = [db, trie, panicked]
set_balance(st, account, balance) ==
    [st EXCEPT !.db = Insert(st.db, account, to_le_bytes(balance)),
               !.trie = TrieInsert(st.trie, account, to_le_bytes(balance))]

\* SimulatedProcessor::set_balance: the snapshot is read-only
sim_set_balance(st, account, balance) ==
    [st EXCEPT !.trie = TrieInsert(st.trie, account, to_le_bytes(balance))]

\* a + b on u64 overflows
Overflows(a, b) == a + b >= U64Mod

\* a + b on u64 in the build without overflow checks
WrappingAdd(a, b) == (a + b) % U64Mod

\* StateProcessor::apply_transaction.  The sum of line 31 is evaluated after
\* the write of line 30: beyond the range the build with overflow checks
\* panics there, the build without wraps.
apply_transaction(st, tx, checks) ==
    IF st.panicked THEN st
    ELSE IF tx.payload.kind = "Transfer" THEN
        LET from_balance == get_balance(st.db, tx.from) IN
        IF from_balance >= tx.payload.amount
        THEN LET to_balance == get_balance(st.db, tx.payload.to)
                 debited == set_balance(st, tx.from, from_balance - tx.payload.amount)
             IN  IF Overflows(to_balance, tx.payload.amount) /\ checks
                 THEN [debited EXCEPT !.panicked = TRUE]
                 ELSE set_balance(debited, tx.payload.to,
                                  WrappingAdd(to_balance, tx.payload.amount))
        ELSE st
    ELSE IF tx.payload.kind = "Stake" THEN
        LET balance == get_balance(st.db, tx.from) IN
        IF balance >= tx.payload.amount
        THEN set_balance(st, tx.from, balance - tx.payload.amount)
        ELSE st
    ELSE IF tx.payload.kind = "Unstake" THEN
        LET balance == get_balance(st.db, tx.from) IN
        IF Overflows(balance, tx.payload.amount) /\ checks
        THEN [st EXCEPT !.panicked = TRUE]
        ELSE set_balance(st, tx.from, WrappingAdd(balance, tx.payload.amount))
    ELSE st

\* SimulatedProcessor::apply_transaction: st.db is the snapshot
sim_apply_transaction(st, tx, checks) ==
    IF st.panicked THEN st
    ELSE IF tx.payload.kind = "Transfer" THEN
        LET from_balance == get_balance(st.db, tx.from) IN
        IF from_balance >= tx.payload.amount
        THEN LET to_balance == get_balance(st.db, tx.payload.to)
                 debited == sim_set_balance(st, tx.from, from_balance - tx.payload.amount)
             IN  IF Overflows(to_balance, tx.payload.amount) /\ checks
                 THEN [debited EXCEPT !.panicked = TRUE]
                 ELSE sim_set_balance(debited, tx.payload.to,
                                      WrappingAdd(to_balance, tx.payload.amount))
        ELSE st
    ELSE IF tx.payload.kind = "Stake" THEN
        LET balance == get_balance(st.db, tx.from) IN
        IF balance >= tx.payload.amount
        THEN sim_set_balance(st, tx.from, balance - tx.payload.amount)
        ELSE st
    ELSE IF tx.payload.kind = "Unstake" THEN
        LET balance == get_balance(st.db, tx.from) IN
        IF Overflows(balance, tx.payload.amount) /\ checks
        THEN [st EXCEPT !.panicked = TRUE]
        ELSE sim_set_balance(st, tx.from, WrappingAdd(balance, tx.payload.amount))
    ELSE st

RECURSIVE ApplyAll(_, _, _)
ApplyAll(st, txs, checks) ==
    IF txs = << >> THEN st
    ELSE ApplyAll(apply_transaction(st, Head(txs), checks), Tail(txs), checks)

RECURSIVE SimApplyAll(_, _, _)
SimApplyAll(st, txs, checks) ==
    IF txs = << >> THEN st
    ELSE SimApplyAll(sim_apply_transaction(st, Head(txs), checks), Tail(txs), checks)

\* StateProcessor::apply_block on the live pair: the live pair after the
\* call, the root returned, and whether the call panicked
apply_block(kv, t, txs, checks) ==
    LET st == ApplyAll([db |-> kv, trie |-> t, panicked |-> FALSE], txs, checks)
    IN  [db |-> st.db, trie |-> st.trie, panicked |-> st.panicked,
         root |-> root_hash(st.trie)]

simulate_block_on_live_trie(kv, t, txs, checks) ==
    LET st == SimApplyAll([db |-> kv, trie |-> t, panicked |-> FALSE], txs, checks)
    IN  [db |-> kv, trie |-> st.trie, panicked |-> st.panicked,
         root |-> root_hash(st.trie)]

\* StateProcessor::simulate_block: a snapshot of the store and a clone of
\* the trie are worked on; the live pair is the one passed in
simulate_block(kv, t, txs, checks) ==
    LET st == SimApplyAll([db |-> kv, trie |-> t, panicked |-> FALSE], txs, checks)
    IN  [db |-> kv, trie |-> t, panicked |-> st.panicked,
         root |-> root_hash(st.trie)]

(***************************************************************************)
(* Concurrent callers of one mempool.  Each of the three fields is behind  *)
(* its own mutex; a call is a sequence of steps, one per lock acquisition, *)
(* and a step that needs a held mutex waits.  A guard is released when the *)
(* function returns.                                                       *)
(***************************************************************************)
\* number of mempool calls begun in one concurrent behaviour
MaxCalls == 3

Threads == {"t1", "t2"}
NoThread == "none"

VARIABLES
    pc,            \* thread -> the step it is at
    targ,          \* thread -> the argument of its call
    tres,          \* thread -> its last finished call: [op, arg, res]
    lock_pending,  \* holder of the pending mutex, or NoThread
    lock_seen,     \* holder of the seen mutex, or NoThread
    lock_nonces,   \* holder of the account_nonces mutex, or NoThread
    calls,         \* number of calls begun
    hist           \* history: the queue entries admitted, those returned by
                   \* take calls, in order, and those dropped by remove calls

rcVars == <<pc, targ, tres, lock_pending, lock_seen, lock_nonces, calls, hist>>

(***************************************************************************)
(* The rest of the node: tries built entry by entry (mpt/trie.rs), the     *)
(* consensus engines (consensus/pow.rs, consensus/pos.rs), the block       *)
(* producer's loop (block_producer.rs) and the indexer (indexer.rs).       *)
(***************************************************************************)
VARIABLES
    tries,      \* two tries, each with the entries inserted into it
    engine,     \* the consensus engine instance
    chain,      \* history: the blocks the engine produced, in order
    cs,         \* the last consensus call and what it returned
    producer,   \* BlockProducer::run: [pc, block_number, stages]
    indexer,    \* BlockchainIndexer: [blocks, block_numbers, transactions]
    ix_locks    \* holder of each of the indexer's three mutexes

trVars == <<tries>>
csVars == <<engine, chain, cs>>
pdVars == <<producer>>
ixVars == <<indexer, ix_locks>>

(***************************************************************************)
(* Block synchronisation (sync.rs) and the peer-to-peer network            *)
(* (network/mod.rs).                                                       *)
(***************************************************************************)
VARIABLES
    sync_state,     \* BlockSyncState: [local_height, peer_max_height,
                    \*                  pending_blocks, staged_blocks]
    sy,             \* the last call on the sync state and what it returned
    heights_passed, \* history: the heights passed to update_peer_height
    staged_log,     \* history: the blocks staged since the last drain
    peers,          \* Network::peers: node id -> Peer
    peer_streams,   \* Network::peer_streams, a Vec of streams
    conn,           \* stream -> the condition of its connection
    readers,        \* the streams a reader thread of the listener reads
    failed,         \* history: the streams a read or a write failed on
    nw              \* the last step of the network and what it did

\* the connections a node can have
Streams == {"s1", "s2"}

\* the cross-shard protocol manager (cross_shard_protocol.rs)
VARIABLES
    pending_transactions, \* CrossShardProtocol::pending_transactions:
                          \* id -> CrossShardTransaction
    xs,                   \* the last call on the protocol and what it returned
    receipts              \* number of receipts processed so far

syVars == <<sync_state, sy, heights_passed, staged_log>>
nwVars == <<peers, peer_streams, conn, readers, failed, nw>>
shVars == <<pending_transactions, xs, receipts>>
yVars == <<syVars, nwVars, shVars>>

\* everything but the mempool, the state processor and the mempool's threads
xVars == <<trVars, csVars, pdVars, ixVars, yVars>>

vars == <<mpVars, stVars, rcVars, xVars>>

Finished(op, arg, res) == [op |-> op, arg |-> arg, res |-> res]

\* the thread returns: its guards are dropped
Return(t, op, res) ==
    /\ pc' = [pc EXCEPT ![t] = "idle"]
    /\ tres' = [tres EXCEPT ![t] = Finished(op, targ[t], res)]
    /\ lock_pending' = IF lock_pending = t THEN NoThread ELSE lock_pending
    /\ lock_seen' = IF lock_seen = t THEN NoThread ELSE lock_seen
    /\ lock_nonces' = IF lock_nonces = t THEN NoThread ELSE lock_nonces
    /\ UNCHANGED <<targ, calls>>

Goto(t, label) ==
    /\ pc' = [pc EXCEPT ![t] = label]
    /\ UNCHANGED <<targ, tres, calls>>

\* add_transaction, lines 41-43: the call begins; the signature is verified
\* on the caller's own data
AddBegin(t, tx) ==
    /\ UNCHANGED <<block, finalized, last, hist, stVars, xVars>>
    /\ pc[t] = "idle" /\ calls < MaxCalls
    /\ calls' = calls + 1
    /\ targ' = [targ EXCEPT ![t] = tx]
    /\ IF verify_transaction_signature(tx) = "Ok"
       THEN pc' = [pc EXCEPT ![t] = "add_verify_nonce"] /\ UNCHANGED tres
       ELSE /\ pc' = pc
            /\ tres' = [tres EXCEPT ![t] = Finished("add", tx, "BadSignature")]
    /\ UNCHANGED <<pending, seen, account_nonces, adds, accepted,
                   lock_pending, lock_seen, lock_nonces>>

\* line 46, verify_nonce: the nonce mutex is taken, the record read, and the
\* mutex released when verify_nonce returns
AddVerifyNonce(t) ==
    /\ UNCHANGED <<block, finalized, last, hist, stVars, xVars>>
    /\ pc[t] = "add_verify_nonce" /\ lock_nonces = NoThread
    /\ IF verify_nonce(account_nonces, targ[t]) = "Ok"
       THEN Goto(t, "add_lock_seen")
            /\ UNCHANGED <<lock_pending, lock_seen, lock_nonces>>
       ELSE Return(t, "add", "BadNonce")
    /\ UNCHANGED <<pending, seen, account_nonces, adds, accepted>>

\* lines 51-54: the seen mutex is taken and the duplicate check made
AddLockSeen(t) ==
    /\ UNCHANGED <<block, finalized, last, hist, stVars, xVars>>
    /\ pc[t] = "add_lock_seen" /\ lock_seen = NoThread
    /\ IF compute_tx_hash(targ[t]) \in seen
       THEN Return(t, "add", "Duplicate")
       ELSE Goto(t, "add_lock_pending") /\ lock_seen' = t
            /\ UNCHANGED <<lock_pending, lock_nonces>>
    /\ UNCHANGED <<pending, seen, account_nonces, adds, accepted>>

\* lines 57-63: the pending mutex is taken and the capacity check made
AddLockPending(t) ==
    /\ UNCHANGED <<block, finalized, last, hist, stVars, xVars>>
    /\ pc[t] = "add_lock_pending" /\ lock_pending = NoThread
    /\ IF Len(pending) >= MaxSize
       THEN Return(t, "add", "Full")
       ELSE Goto(t, "add_lock_nonces") /\ lock_pending' = t
            /\ UNCHANGED <<lock_seen, lock_nonces>>
    /\ UNCHANGED <<pending, seen, account_nonces, adds, accepted>>

\* lines 66-73: the nonce mutex is taken and the three fields updated
AddLockNonces(t) ==
    /\ UNCHANGED <<block, finalized, last, stVars, xVars>>
    /\ pc[t] = "add_lock_nonces" /\ lock_nonces = NoThread
    /\ hist' = [hist EXCEPT !.admitted = @ \cup {[tx |-> targ[t], seq |-> adds]}]
    /\ account_nonces' = Insert(account_nonces, targ[t].from, targ[t].nonce)
    /\ pending' = Append(pending, [tx |-> targ[t], seq |-> adds])
    /\ seen' = seen \cup {compute_tx_hash(targ[t])}
    /\ adds' = adds + 1
    /\ accepted' = [accepted EXCEPT ![targ[t].from] = Append(@, targ[t].nonce)]
    /\ Return(t, "add", "Ok")

\* take_transactions, line 79
TakeBegin(t, count) ==
    /\ UNCHANGED <<block, finalized, last, hist, stVars, xVars>>
    /\ pc[t] = "idle" /\ calls < MaxCalls /\ lock_pending = NoThread
    /\ calls' = calls + 1
    /\ targ' = [targ EXCEPT ![t] = count]
    /\ pc' = [pc EXCEPT ![t] = "take_lock_seen"]
    /\ lock_pending' = t
    /\ UNCHANGED <<pending, seen, account_nonces, adds, accepted, tres, lock_seen,
                   lock_nonces>>

\* take_transactions, lines 80-93
TakeLockSeen(t) ==
    /\ UNCHANGED <<block, finalized, last, stVars, xVars>>
    /\ pc[t] = "take_lock_seen" /\ lock_seen = NoThread
    /\ hist' = [hist EXCEPT !.delivered = @ \o take_transactions(Mp, targ[t]).ret]
    /\ LET r == take_transactions(Mp, targ[t]) IN
       /\ pending' = r.mp.pending
       /\ seen' = r.mp.seen
       /\ Return(t, "take", r.ret)
    /\ UNCHANGED <<account_nonces, adds, accepted>>

\* remove_transaction, lines 143-146
RemoveBegin(t, hash) ==
    /\ UNCHANGED <<block, finalized, last, hist, stVars, xVars>>
    /\ pc[t] = "idle" /\ calls < MaxCalls /\ lock_seen = NoThread
    /\ calls' = calls + 1
    /\ targ' = [targ EXCEPT ![t] = hash]
    /\ IF hash \in seen
       THEN /\ seen' = seen \ {hash}
            /\ pc' = [pc EXCEPT ![t] = "remove_lock_pending"]
            /\ lock_seen' = t
            /\ UNCHANGED tres
       ELSE /\ tres' = [tres EXCEPT ![t] = Finished("remove", hash, FALSE)]
            /\ UNCHANGED <<seen, pc, lock_seen>>
    /\ UNCHANGED <<pending, account_nonces, adds, accepted, lock_pending, lock_nonces>>

\* remove_transaction, lines 148-152
RemoveLockPending(t) ==
    /\ UNCHANGED <<block, finalized, last, stVars, xVars>>
    /\ pc[t] = "remove_lock_pending" /\ lock_pending = NoThread
    /\ hist' = [hist EXCEPT !.removed = @ \cup
                    {pending[i] : i \in {j \in 1..Len(pending) :
                                           compute_tx_hash(pending[j].tx) = targ[t]}}]
    /\ pending' = Retain(pending, targ[t])
    /\ Return(t, "remove", Len(Retain(pending, targ[t])) < Len(pending))
    /\ UNCHANGED <<seen, account_nonces, adds, accepted>>

(***************************************************************************)
(* Inputs.                                                                 *)
(***************************************************************************)
Recipients == {"Carol", "Dave"}

\* transactions carrying neither a signature nor a public key, of any nonce
PlainTxs ==
    {MkTx(s, n, Transfer(to, 1), NoBytes) :
        s \in Senders, n \in 0..MaxNonce, to \in Recipients}

\* one sender's transactions before signing
SignBase ==
    {MkTx("Alice", n, Transfer(to, 1), pk) :
        n \in 0..1, to \in Recipients, pk \in {NoBytes, K1}}

\* signed by the key named or by another one, altered after signing,
\* carrying a signature of the wrong length, or not signed at all
SignedTxs ==
    SignBase
    \cup {Sign(k, u) : k \in Keys, u \in SignBase}
    \cup {[Sign(K1, u) EXCEPT !.payload = Transfer(to, 1)] :
            u \in SignBase, to \in Recipients}
    \cup {[u EXCEPT !.signature = ShortSignature] : u \in SignBase}

Amounts == 1..MaxAmount

\* the transactions applied to the state one at a time
StateTxs ==
    {MkTx(f, 0, Transfer(to, a), NoBytes) : f \in Accounts, to \in Accounts, a \in Amounts}
    \cup {MkTx(f, 0, Stake(a), NoBytes) : f \in Accounts, a \in Amounts}
    \cup {MkTx(f, 0, Unstake(a), NoBytes) : f \in Accounts, a \in Amounts}
    \cup {MkTx("Alice", 0, ContractDeploy, NoBytes)}

\* the transactions blocks are made of
BlockTxs ==
    {MkTx("Alice", 0, Transfer("Bob", 1), NoBytes),
     MkTx("Bob", 0, Transfer("Alice", 1), NoBytes),
     MkTx("Bob", 0, Unstake(1), NoBytes)}

Blocks == UNION {[1..n -> BlockTxs] : n \in 0..MaxBlockLen}

(***************************************************************************)
(* Initial states.                                                         *)
(***************************************************************************)
MempoolNew ==
    /\ pending = with_capacity.pending
    /\ seen = with_capacity.seen
    /\ account_nonces = with_capacity.account_nonces
    /\ adds = 0
    /\ block = << >>
    /\ accepted = [s \in Senders |-> << >>]
    /\ finalized = {}
    /\ last = [op |-> "new", res |-> "Ok"]

StateNone ==
    /\ db = << >> /\ trie = NoNode
    /\ overflow_checks = FALSE /\ crashed = FALSE
    /\ stLast = [op |-> "none", tx |-> << >>, root |-> << >>, sim |-> << >>]

\* main.rs, lines 107-111: the store and the trie are primed from the
\* configured accounts, in the order the account map yields them
StateGenesis ==
    /\ \E G \in SUBSET Accounts :
         \E bal \in [G -> 0..(U64Mod - 1)] :
            /\ db = [a \in G |-> to_le_bytes(bal[a])]
            /\ IF G = {} THEN trie = NoNode
               ELSE \E a \in G : trie = TrieInsert(NoNode, a, to_le_bytes(bal[a]))
    /\ overflow_checks \in BOOLEAN
    /\ crashed = FALSE
    /\ stLast = [op |-> "none", tx |-> << >>, root |-> << >>, sim |-> << >>]

ThreadsIdle ==
    /\ pc = [t \in Threads |-> "idle"]
    /\ targ = [t \in Threads |-> << >>]
    /\ tres = [t \in Threads |-> Finished("none", << >>, << >>)]
    /\ lock_pending = NoThread /\ lock_seen = NoThread /\ lock_nonces = NoThread
    /\ calls = 0
    /\ hist = [admitted |-> {}, delivered |-> << >>, removed |-> {}]

\* MerklePatriciaTrie::new, twice
TriesNew == tries = [i \in 1..2 |-> [root |-> NoNode, entries |-> << >>]]

\* get_engine(ConsensusType::PoW); nothing produced or validated yet
ConsensusNew ==
    /\ engine = [kind |-> "PoW", validators |-> << >>, order |-> << >>]
    /\ chain = << >>
    /\ cs = [op |-> "none"]

\* BlockProducer::run before its first iteration
ProducerNew == producer = [pc |-> "sleep", block_number |-> 1, stages |-> << >>]

\* BlockchainIndexer::new
IndexerNew ==
    /\ indexer = [blocks |-> << >>, block_numbers |-> << >>, transactions |-> << >>]
    /\ ix_locks = [m \in {"blocks", "block_numbers", "transactions"} |-> NoThread]

\* BlockSyncState::new; nothing called yet
SyncNew ==
    /\ sync_state = [local_height |-> 0, peer_max_height |-> 0,
                     pending_blocks |-> << >>, staged_blocks |-> << >>]
    /\ sy = [op |-> "none"]
    /\ heights_passed = {}
    /\ staged_log = << >>

\* Network::new; no connection made yet
NetworkNew ==
    /\ peers = << >>
    /\ peer_streams = << >>
    /\ conn = [s \in Streams |-> "unused"]
    /\ readers = {}
    /\ failed = {}
    /\ nw = [op |-> "none"]

\* CrossShardProtocol::new
ProtocolNew ==
    /\ pending_transactions = << >>
    /\ xs = [op |-> "none"]
    /\ receipts = 0

RestNew ==
    TriesNew /\ ConsensusNew /\ ProducerNew /\ IndexerNew /\ SyncNew /\ NetworkNew /\ ProtocolNew

(***************************************************************************)
(* The mempool called by one caller at a time.                             *)
(***************************************************************************)
SetMp(mp) ==
    /\ pending' = mp.pending
    /\ seen' = mp.seen
    /\ account_nonces' = mp.account_nonces

Add(tx) ==
    /\ adds < MaxAdds
    /\ LET r == add_transaction(Mp, tx, adds) IN
       /\ SetMp(r.mp)
       /\ last' = [op |-> "add", res |-> r.res]
       /\ accepted' = IF r.res = "Ok"
                      THEN [accepted EXCEPT ![tx.from] = Append(@, tx.nonce)]
                      ELSE accepted
    /\ adds' = adds + 1
    /\ UNCHANGED <<block, finalized, stVars, rcVars, xVars>>

\* BlockProducer::run, line 61 (count 100), or any caller's take
Take(count) ==
    /\ block = << >>
    /\ LET r == take_transactions(Mp, count) IN
       /\ SetMp(r.mp)
       /\ block' = TxsOf(r.ret)
       /\ last' = [op |-> "take", res |-> r.ret]
    /\ UNCHANGED <<adds, accepted, finalized, stVars, rcVars, xVars>>

\* BlockProducer::run, line 65: the batch taken is finalized
Finalize ==
    /\ block # << >>
    /\ SetMp(finalize_block_transactions(Mp, block))
    /\ block' = << >>
    /\ finalized' = finalized \cup {<<block[i].from, block[i].nonce>> : i \in 1..Len(block)}
    /\ last' = [op |-> "finalize", res |-> "Ok"]
    /\ UNCHANGED <<adds, accepted, stVars, rcVars, xVars>>

Remove(hash) ==
    /\ LET r == remove_transaction(Mp, hash) IN
       /\ SetMp(r.mp)
       /\ last' = [op |-> "remove", res |-> r.res]
    /\ UNCHANGED <<adds, block, accepted, finalized, stVars, rcVars, xVars>>

Clear ==
    /\ SetMp(clear(Mp))
    /\ last' = [op |-> "clear", res |-> "Ok"]
    /\ UNCHANGED <<adds, block, accepted, finalized, stVars, rcVars, xVars>>

Init == MempoolNew /\ StateNone /\ ThreadsIdle /\ RestNew

NextAdmission ==
    \/ \E tx \in PlainTxs : Add(tx)
    \/ \E count \in 0..MaxTake : Take(count)
    \/ \E tx \in PlainTxs : Remove(compute_tx_hash(tx))
    \/ Clear

Next ==
    \/ NextAdmission
    \/ Finalize

\* the mempool under add, take, finalize_block, remove and clear
Spec == Init /\ [][Next]_vars

\* the mempool without finalize_block
SpecAdmission == Init /\ [][NextAdmission]_vars

NextSigned ==
    \/ \E tx \in SignedTxs : Add(tx)
    \/ \E count \in 1..MaxTake : Take(count)
    \/ Finalize

\* the mempool offered signed, wrongly signed and unsigned transactions
SpecSigned == Init /\ [][NextSigned]_vars

\* one sender's transactions of every nonce, and one whose signature has
\* the wrong length
RejectionTxs ==
    {MkTx("Alice", n, Transfer("Carol", 1), NoBytes) : n \in 0..MaxNonce}
    \cup {[MkTx("Alice", n, Transfer("Carol", 1), K1) EXCEPT !.signature = ShortSignature] :
            n \in 0..MaxNonce}

NextRejection ==
    \/ \E tx \in RejectionTxs : Add(tx)
    \/ \E count \in 1..MaxTake : Take(count)
    \/ Finalize

\* the mempool driven into each of the four rejections of add_transaction
SpecRejection == Init /\ [][NextRejection]_vars

(***************************************************************************)
(* The state processor.                                                    *)
(***************************************************************************)
StateCall(op, tx, r, sim) ==
    /\ db' = r.db
    /\ trie' = r.trie
    /\ crashed' = (r.panicked \/ sim.panicked)
    /\ stLast' = [op |-> op, tx |-> tx, root |-> r.root, sim |-> sim.root]
    /\ UNCHANGED <<overflow_checks, mpVars, rcVars, xVars>>

\* StateProcessor::apply_transaction on the live pair
ApplyTx(tx) ==
    /\ ~crashed
    /\ LET st == apply_transaction([db |-> db, trie |-> trie, panicked |-> FALSE],
                                   tx, overflow_checks)
           r == [db |-> st.db, trie |-> st.trie, panicked |-> st.panicked,
                 root |-> << >>]
       IN  StateCall("apply", <<tx>>, r, [panicked |-> FALSE, root |-> << >>])

\* StateProcessor::simulate_block
Simulate(txs) ==
    /\ ~crashed
    /\ LET r == simulate_block(db, trie, txs, overflow_checks)
       IN  StateCall("simulate", << >>, r, r)

\* main.rs, lines 121-152: the root before, the simulation, then
\* StateProcessor::apply_block of the block made of txs on that root
Commit(txs) ==
    /\ ~crashed
    /\ LET sim == simulate_block(db, trie, txs, overflow_checks)
           r == apply_block(db, trie, txs, overflow_checks)
       IN  StateCall("commit", << >>,
                     IF sim.panicked THEN [sim EXCEPT !.root = << >>] ELSE r, sim)

InitState == MempoolNew /\ StateGenesis /\ ThreadsIdle /\ RestNew

NextState ==
    \/ \E tx \in StateTxs : ApplyTx(tx)
    \/ \E txs \in Blocks : Simulate(txs)
    \/ \E txs \in Blocks : Commit(txs)

SpecState == InitState /\ [][NextState]_vars

(***************************************************************************)
(* The mempool called by concurrent threads.                               *)
(***************************************************************************)
RaceTxs ==
    {MkTx("Alice", n, Transfer(to, 1), NoBytes) : n \in 0..1, to \in Recipients}
    \cup {[MkTx("Alice", 0, Transfer("Carol", 1), K1) EXCEPT !.signature = ShortSignature]}

NextRace ==
    \E t \in Threads :
        \/ \E tx \in RaceTxs : AddBegin(t, tx)
        \/ AddVerifyNonce(t)
        \/ AddLockSeen(t)
        \/ AddLockPending(t)
        \/ AddLockNonces(t)
        \/ \E count \in 1..MaxTake : TakeBegin(t, count)
        \/ TakeLockSeen(t)
        \/ \E tx \in RaceTxs : RemoveBegin(t, compute_tx_hash(tx))
        \/ RemoveLockPending(t)

SpecRace == Init /\ [][NextRace]_vars

\* the steps of thread t inside a call it has begun: each acquires a mutex
RaceStep(t) ==
    \/ AddVerifyNonce(t)
    \/ AddLockSeen(t)
    \/ AddLockPending(t)
    \/ AddLockNonces(t)
    \/ TakeLockSeen(t)
    \/ RemoveLockPending(t)

(***************************************************************************)
(* The consensus engines (consensus/pow.rs, consensus/pos.rs).  A hash is  *)
(* the tuple of what was hashed, so that two hashes are equal exactly when *)
(* their inputs are; strings that are compared with hashes are tuples too. *)
(***************************************************************************)
\* largest nonce the proof-of-work search has to reach
MaxMine == 2
\* number of blocks produced in one behaviour
MaxChain == 2

\* the literal "GENESIS"
GENESIS == <<"GENESIS">>

\* types.rs, Block
Block(transactions, previous_hash, nonce, hash, pre_state_root, post_state_root) ==
    [transactions |-> transactions, previous_hash |-> previous_hash,
     nonce |-> nonce, hash |-> hash,
     pre_state_root |-> pre_state_root, post_state_root |-> post_state_root]

\* PoWConsensus::hash_block_content
pow_hash_block_content(transactions, previous_hash, nonce, state_root) ==
    <<"sha256", transactions, previous_hash, nonce, state_root>>

\* PoSConsensus::hash_block_content
pos_hash_block_content(transactions, previous_hash, validator, state_root) ==
    <<"sha256", transactions, previous_hash, validator, state_root>>

\* hash.starts_with("0000"): a property of the digest, which every input
\* takes part in; one nonce in MaxMine + 1 consecutive ones has it
starts_with_0000(hash) ==
    /\ Len(hash) = 5
    /\ hash[4] \in Nat
    /\ (Len(hash[2]) + Len(hash[3]) + hash[4] + Len(hash[5])) % (MaxMine + 1) = 0

\* the loop of PoWConsensus::produce_block: the first nonce from `nonce` on
\* whose hash has the prefix
RECURSIVE Mine(_, _, _, _)
Mine(transactions, previous_hash, nonce, post_state_root) ==
    IF starts_with_0000(pow_hash_block_content(transactions, previous_hash,
                                               nonce, post_state_root))
    THEN nonce
    ELSE Mine(transactions, previous_hash, nonce + 1, post_state_root)

pow_produce_block_unmined(transactions, pre_state_root, post_state_root) ==
    Block(transactions, GENESIS, 0,
          pow_hash_block_content(transactions, GENESIS, 0, post_state_root),
          pre_state_root, post_state_root)

\* PoWConsensus::produce_block
pow_produce_block(transactions, pre_state_root, post_state_root) ==
    LET previous_hash == GENESIS
        nonce == Mine(transactions, previous_hash, 0, post_state_root)
    IN  Block(transactions, previous_hash, nonce,
              pow_hash_block_content(transactions, previous_hash, nonce,
                                     post_state_root),
              pre_state_root, post_state_root)

pow_validate_block_hash_only(b, pre_state_root, actual_post_state_root) ==
    /\ starts_with_0000(b.hash)
    /\ pow_hash_block_content(b.transactions, b.previous_hash, b.nonce,
                              actual_post_state_root) = b.hash

pow_validate_block_checking_pre(b, pre_state_root, actual_post_state_root) ==
    /\ starts_with_0000(b.hash)
    /\ pow_hash_block_content(b.transactions, b.previous_hash, b.nonce,
                              actual_post_state_root) = b.hash
    /\ b.post_state_root = actual_post_state_root
    /\ b.pre_state_root = pre_state_root

\* PoWConsensus::validate_block
pow_validate_block(b, pre_state_root, actual_post_state_root) ==
    IF ~starts_with_0000(b.hash) THEN FALSE
    ELSE IF pow_hash_block_content(b.transactions, b.previous_hash, b.nonce,
                                   actual_post_state_root) # b.hash
    THEN FALSE
    ELSE IF b.post_state_root # actual_post_state_root THEN FALSE
    ELSE TRUE

FirstInOrder(validators, order, best) ==
    IF order = << >> THEN best ELSE Head(order)

\* Iterator::max_by_key over the map in its iteration order: of several
\* largest elements the last one met is returned
RECURSIVE MaxByStake(_, _, _)
MaxByStake(validators, order, best) ==
    IF order = << >> THEN best
    ELSE MaxByStake(validators, Tail(order),
                    IF best = "" \/ validators[Head(order)] >= validators[best]
                    THEN Head(order) ELSE best)

\* PoSConsensus::select_validator
select_validator(eng) ==
    LET best == MaxByStake(eng.validators, eng.order, "")
    IN  IF best = "" THEN "DefaultValidator" ELSE best

\* PoSConsensus::produce_block
pos_produce_block(eng, transactions, pre_state_root, post_state_root) ==
    LET previous_hash == GENESIS
        validator == select_validator(eng)
    IN  Block(transactions, previous_hash, 0,
              pos_hash_block_content(transactions, previous_hash, validator,
                                     post_state_root),
              pre_state_root, post_state_root)

\* PoSConsensus::validate_block
pos_validate_block(eng, b, pre_state_root, actual_post_state_root) ==
    LET validator == select_validator(eng) IN
    IF pos_hash_block_content(b.transactions, b.previous_hash, validator,
                              actual_post_state_root) # b.hash
    THEN FALSE
    ELSE IF b.post_state_root # actual_post_state_root THEN FALSE
    ELSE TRUE

\* ConsensusEngine::produce_block of the engine instance
produce_block(eng, transactions, pre_state_root, post_state_root) ==
    IF eng.kind = "PoW"
    THEN pow_produce_block(transactions, pre_state_root, post_state_root)
    ELSE pos_produce_block(eng, transactions, pre_state_root, post_state_root)

\* ConsensusEngine::validate_block of the engine instance
validate_block(eng, b, pre_state_root, actual_post_state_root) ==
    IF eng.kind = "PoW"
    THEN pow_validate_block(b, pre_state_root, actual_post_state_root)
    ELSE pos_validate_block(eng, b, pre_state_root, actual_post_state_root)

\* the orders a HashMap of these keys may be iterated in; one instance
\* keeps its order
Orders(keys) ==
    {o \in [1..Cardinality(keys) -> keys] : \A i, j \in DOMAIN o : o[i] = o[j] => i = j}

\* get_engine: the three engines, each in every iteration order of its map
Engines ==
    {[kind |-> "PoW", validators |-> << >>, order |-> << >>]}
    \cup {[kind |-> "PoS", validators |-> [Alice |-> 100, Bob |-> 200], order |-> o] :
            o \in Orders({"Alice", "Bob"})}
    \cup {[kind |-> "PoS", validators |-> [alice |-> 100, bob |-> 100, charlie |-> 100],
           order |-> o] : o \in Orders({"alice", "bob", "charlie"})}

\* the transaction lists blocks are produced from
ConsTxLists ==
    {<< >>,
     <<MkTx("Alice", 0, Transfer("Bob", 1), NoBytes)>>,
     <<MkTx("Alice", 0, Transfer("Bob", 1), NoBytes),
       MkTx("Bob", 0, Transfer("Alice", 1), NoBytes)>>}

\* roots before a block: of the empty trie and of a trie
PreRoots == {root_hash(NoNode), root_hash(TrieInsert(NoNode, "Alice", to_le_bytes(1)))}

\* roots after a block
PostRoots == {root_hash(TrieInsert(NoNode, a, to_le_bytes(1))) : a \in Accounts}

\* a root with one bit flipped
FlipBit(root) == <<"flipped", root>>

\* the values a field of block b is replaced with, all different from it
Replacements(b, field) ==
    IF field = "transactions" THEN ConsTxLists \ {b.transactions}
    ELSE IF field = "previous_hash" THEN {b.hash}
    ELSE IF field = "nonce" THEN (0..(MaxMine + 1)) \ {b.nonce}
    ELSE IF field = "post_state_root"
         THEN (PostRoots \cup {FlipBit(b.post_state_root)}) \ {b.post_state_root}
    ELSE {<<"sha256", b.transactions, b.hash, b.nonce, b.post_state_root>>}

\* get_engine for the configured consensus type
ConsensusAny ==
    /\ engine \in Engines
    /\ chain = << >>
    /\ cs = [op |-> "none"]

\* main.rs, lines 128-136: produce_block, then validate_block of the block
\* against the roots it was produced from
ProduceBlock(transactions, pre, post) ==
    /\ Len(chain) < MaxChain
    /\ LET b == produce_block(engine, transactions, pre, post) IN
       /\ chain' = Append(chain, b)
       /\ cs' = [op |-> "produce", block |-> b, pre |-> pre, post |-> post,
                 field |-> "", ok |-> validate_block(engine, b, pre, post)]
    /\ UNCHANGED <<engine, mpVars, stVars, rcVars, trVars, pdVars, ixVars, yVars>>

\* validate_block of the block last produced with one field replaced,
\* against the roots the block was produced from
ValidateReplaced(field) ==
    /\ cs.op = "produce"
    /\ \E value \in Replacements(cs.block, field) :
         LET b == [cs.block EXCEPT ![field] = value] IN
         cs' = [op |-> "validate", block |-> b, pre |-> cs.pre, post |-> cs.post,
                field |-> field, ok |-> validate_block(engine, b, cs.pre, cs.post)]
    /\ UNCHANGED <<engine, chain, mpVars, stVars, rcVars, trVars, pdVars, ixVars, yVars>>

\* validate_block of the block last validated, once more with another
\* pre-state root as the argument and another one in the block
ValidateOtherPre(pre, block_pre) ==
    /\ cs.op \in {"produce", "validate"}
    /\ (pre # cs.pre \/ block_pre # cs.block.pre_state_root)
    /\ LET b == [cs.block EXCEPT !.pre_state_root = block_pre] IN
       cs' = [op |-> "validate_pre", block |-> b, pre |-> pre, post |-> cs.post,
              field |-> cs.field, ok |-> validate_block(engine, b, pre, cs.post)]
    /\ UNCHANGED <<engine, chain, mpVars, stVars, rcVars, trVars, pdVars, ixVars, yVars>>

BlockFields == {"transactions", "previous_hash", "nonce", "post_state_root", "hash"}

InitConsensus ==
    /\ MempoolNew /\ StateNone /\ ThreadsIdle
    /\ TriesNew /\ ConsensusAny /\ ProducerNew /\ IndexerNew /\ SyncNew /\ NetworkNew /\ ProtocolNew

NextConsensus ==
    \/ \E transactions \in ConsTxLists, pre \in PreRoots, post \in PostRoots :
         ProduceBlock(transactions, pre, post)
    \/ \E field \in BlockFields : ValidateReplaced(field)
    \/ \E pre, block_pre \in PreRoots : ValidateOtherPre(pre, block_pre)

SpecConsensus == InitConsensus /\ [][NextConsensus]_vars

(***************************************************************************)
(* The block producer's loop (block_producer.rs), beside callers that add  *)
(* to the mempool.  Amounts and balances are in units of 50.               *)
(***************************************************************************)
\* the count BlockProducer::run passes to take_transactions
ProducerBatch == 100

\* the transactions submitted while the producer runs
ProducerTxs ==
    {MkTx("Alice", n, Transfer("Bob", 1), NoBytes) : n \in 0..(MaxNonce + 1)}
    \cup {MkTx("Bob", 0, Transfer("Alice", 1), NoBytes)}

\* the store and the trie primed with Alice: 100 and Charlie: 100
StatePrimed ==
    /\ db = [a \in {"Alice", "Charlie"} |-> to_le_bytes(2)]
    /\ \E a \in {"Alice", "Charlie"} : trie = TrieInsert(NoNode, a, to_le_bytes(2))
    /\ overflow_checks \in BOOLEAN
    /\ crashed = FALSE
    /\ stLast = [op |-> "none", tx |-> << >>, root |-> << >>, sim |-> << >>]

\* run, lines 50-57: after the sleep, get_pending; an empty mempool ends
\* the iteration
ProducerGetPending ==
    /\ producer.pc = "sleep"
    /\ pending # << >>
    /\ producer' = [producer EXCEPT !.pc = "take", !.stages = << >>]
    /\ UNCHANGED <<mpVars, stVars, rcVars, trVars, csVars, ixVars, yVars>>

\* run, lines 60-63: take_transactions(100); an empty batch ends the
\* iteration
ProducerTake ==
    /\ producer.pc = "take"
    /\ LET r == take_transactions(Mp, ProducerBatch) IN
       /\ SetMp(r.mp)
       /\ block' = TxsOf(r.ret)
       /\ last' = [op |-> "take", res |-> r.ret]
       /\ producer' = [producer EXCEPT
                         !.pc = IF r.ret = << >> THEN "sleep" ELSE "finalize",
                         !.stages = <<"take">>]
    /\ UNCHANGED <<adds, accepted, finalized, stVars, rcVars, trVars, csVars, ixVars, yVars>>

\* run, lines 64-67: finalize_block_transactions of the batch
ProducerFinalize ==
    /\ producer.pc = "finalize"
    /\ SetMp(finalize_block_transactions(Mp, block))
    /\ finalized' = finalized \cup {<<block[i].from, block[i].nonce>> : i \in 1..Len(block)}
    /\ last' = [op |-> "finalize", res |-> "Ok"]
    /\ producer' = [producer EXCEPT !.pc = "produce", !.stages = Append(@, "finalize")]
    /\ UNCHANGED <<adds, block, accepted, stVars, rcVars, trVars, csVars, ixVars, yVars>>

\* run, lines 69-70: produce_block_info, which prints and counts, and the
\* block number's increment
ProducerProduceInfo ==
    /\ producer.pc = "produce"
    /\ producer' = [producer EXCEPT !.pc = "sleep",
                                    !.block_number = @ + 1,
                                    !.stages = Append(@, "produce")]
    /\ UNCHANGED <<mpVars, stVars, rcVars, trVars, csVars, ixVars, yVars>>

InitProducer ==
    /\ MempoolNew /\ StatePrimed /\ ThreadsIdle
    /\ TriesNew /\ ConsensusNew /\ ProducerNew /\ IndexerNew /\ SyncNew /\ NetworkNew /\ ProtocolNew

NextProducer ==
    \/ \E tx \in ProducerTxs : Add(tx)
    \/ ProducerGetPending
    \/ ProducerTake
    \/ ProducerFinalize
    \/ ProducerProduceInfo

SpecProducer == InitProducer /\ [][NextProducer]_vars

(***************************************************************************)
(* The indexer (indexer.rs) called by concurrent threads.  Each of its     *)
(* three maps is behind its own mutex; a guard bound with let lives until  *)
(* the function returns.                                                   *)
(***************************************************************************)
index_tx_hash_positional(tx) ==
    <<compute_tx_hash(tx), Cardinality(DOMAIN indexer.transactions)>>

\* BlockchainIndexer::compute_tx_hash
index_tx_hash(tx) == compute_tx_hash(tx)

\* the blocks offered to the indexer
IxBlocks ==
    {pow_produce_block(txs, root_hash(NoNode), root_hash(NoNode)) :
        txs \in ConsTxLists \ {<< >>}}

IxNumbers == 0..1

\* the transaction entries of a block: hash -> TransactionIndexEntry
RECURSIVE IndexTxs(_, _, _, _)
IndexTxs(transactions, b, block_number, tx_index) ==
    IF tx_index > Len(b.transactions) THEN transactions
    ELSE IndexTxs(Insert(transactions, index_tx_hash(b.transactions[tx_index]),
                         [transaction |-> b.transactions[tx_index],
                          block_hash |-> b.hash,
                          block_number |-> block_number,
                          tx_index |-> tx_index - 1]),
                  b, block_number, tx_index + 1)

\* HashMap::get(..).cloned(): the value in a one-element sequence, or none
Lookup(map, key) == IF key \in DOMAIN map THEN <<map[key]>> ELSE << >>

\* BlockchainIndexer::get_block_count
get_block_count(ix) == Cardinality(DOMAIN ix.blocks)

\* BlockchainIndexer::get_transaction_count
get_transaction_count(ix) == Cardinality(DOMAIN ix.transactions)

ReleasedAfterInsert(t) == NoThread

\* the holder of the blocks mutex once index_block has inserted the block:
\* the guard is a local of the function
HeldAfterInsert(t) == t

\* the thread's call returns res; the guards it holds are dropped
IxReturn(t, op, res) ==
    /\ pc' = [pc EXCEPT ![t] = "idle"]
    /\ tres' = [tres EXCEPT ![t] = Finished(op, targ[t], res)]
    /\ ix_locks' = [m \in DOMAIN ix_locks |->
                      IF ix_locks[m] = t THEN NoThread ELSE ix_locks[m]]

\* index_block, line 52: the call begins
IndexBegin(t, b, block_number) ==
    /\ pc[t] = "idle" /\ calls < MaxCalls
    /\ calls' = calls + 1
    /\ targ' = [targ EXCEPT ![t] = [block |-> b, block_number |-> block_number]]
    /\ pc' = [pc EXCEPT ![t] = "ix_lock_blocks"]
    /\ UNCHANGED <<tres, lock_pending, lock_seen, lock_nonces, hist, indexer, ix_locks,
                   mpVars, stVars, trVars, csVars, pdVars, yVars>>

\* lines 55-63: the blocks mutex is taken and the block inserted
IndexLockBlocks(t) ==
    /\ pc[t] = "ix_lock_blocks" /\ ix_locks["blocks"] = NoThread
    /\ indexer' = [indexer EXCEPT !.blocks =
                     Insert(@, targ[t].block.hash,
                            [block |-> targ[t].block,
                             block_number |-> targ[t].block_number])]
    /\ ix_locks' = [ix_locks EXCEPT !["blocks"] = HeldAfterInsert(t)]
    /\ pc' = [pc EXCEPT ![t] = "ix_lock_numbers"]
    /\ UNCHANGED <<targ, tres, calls, lock_pending, lock_seen, lock_nonces, hist,
                   mpVars, stVars, trVars, csVars, pdVars, yVars>>

\* lines 66-67: the block_numbers mutex is taken and the number inserted
IndexLockNumbers(t) ==
    /\ pc[t] = "ix_lock_numbers" /\ ix_locks["block_numbers"] = NoThread
    /\ indexer' = [indexer EXCEPT !.block_numbers =
                     Insert(@, targ[t].block_number, targ[t].block.hash)]
    /\ ix_locks' = [ix_locks EXCEPT !["block_numbers"] = t]
    /\ pc' = [pc EXCEPT ![t] = "ix_lock_txs"]
    /\ UNCHANGED <<targ, tres, calls, lock_pending, lock_seen, lock_nonces, hist,
                   mpVars, stVars, trVars, csVars, pdVars, yVars>>

\* lines 70-85: the transactions mutex is taken, every transaction of the
\* block inserted, and the function returns
IndexLockTxs(t) ==
    /\ pc[t] = "ix_lock_txs" /\ ix_locks["transactions"] = NoThread
    /\ indexer' = [indexer EXCEPT !.transactions =
                     IndexTxs(@, targ[t].block, targ[t].block_number, 1)]
    /\ IxReturn(t, "index", "Ok")
    /\ UNCHANGED <<targ, calls, lock_pending, lock_seen, lock_nonces, hist,
                   mpVars, stVars, trVars, csVars, pdVars, yVars>>

\* get_block: the blocks mutex is taken, the map read and the guard dropped
GetBlock(t, block_hash) ==
    /\ pc[t] = "idle" /\ calls < MaxCalls
    /\ ix_locks["blocks"] = NoThread
    /\ calls' = calls + 1
    /\ targ' = [targ EXCEPT ![t] = block_hash]
    /\ tres' = [tres EXCEPT ![t] = Finished("get_block", block_hash,
                                            Lookup(indexer.blocks, block_hash))]
    /\ UNCHANGED <<pc, lock_pending, lock_seen, lock_nonces, hist, indexer, ix_locks,
                   mpVars, stVars, trVars, csVars, pdVars, yVars>>

\* get_block_by_number, lines 96-97 and 101-103: the block_numbers mutex is
\* taken and the number looked up; without an entry the call returns None
GetByNumberBegin(t, block_number) ==
    /\ pc[t] = "idle" /\ calls < MaxCalls
    /\ ix_locks["block_numbers"] = NoThread
    /\ calls' = calls + 1
    /\ targ' = [targ EXCEPT ![t] = block_number]
    /\ IF block_number \in DOMAIN indexer.block_numbers
       THEN /\ pc' = [pc EXCEPT ![t] = "gbn_lock_blocks"]
            /\ ix_locks' = [ix_locks EXCEPT !["block_numbers"] = t]
            /\ UNCHANGED tres
       ELSE /\ tres' = [tres EXCEPT ![t] =
                          Finished("get_block_by_number", block_number, << >>)]
            /\ UNCHANGED <<pc, ix_locks>>
    /\ UNCHANGED <<lock_pending, lock_seen, lock_nonces, hist, indexer,
                   mpVars, stVars, trVars, csVars, pdVars, yVars>>

\* get_block_by_number, lines 98-100: holding block_numbers, the blocks
\* mutex is taken and the block read
GetByNumberLockBlocks(t) ==
    /\ pc[t] = "gbn_lock_blocks" /\ ix_locks["blocks"] = NoThread
    /\ IxReturn(t, "get_block_by_number",
                Lookup(indexer.blocks, indexer.block_numbers[targ[t]]))
    /\ UNCHANGED <<targ, calls, lock_pending, lock_seen, lock_nonces, hist, indexer,
                   mpVars, stVars, trVars, csVars, pdVars, yVars>>

\* get_transaction: the transactions mutex is taken and the map read
GetTransaction(t, tx_hash) ==
    /\ pc[t] = "idle" /\ calls < MaxCalls
    /\ ix_locks["transactions"] = NoThread
    /\ calls' = calls + 1
    /\ targ' = [targ EXCEPT ![t] = tx_hash]
    /\ tres' = [tres EXCEPT ![t] = Finished("get_transaction", tx_hash,
                                            Lookup(indexer.transactions, tx_hash))]
    /\ UNCHANGED <<pc, lock_pending, lock_seen, lock_nonces, hist, indexer, ix_locks,
                   mpVars, stVars, trVars, csVars, pdVars, yVars>>

IxTxs == UNION {{b.transactions[i] : i \in 1..Len(b.transactions)} : b \in IxBlocks}

NextIndexer ==
    \E t \in Threads :
        \/ \E b \in IxBlocks, n \in IxNumbers : IndexBegin(t, b, n)
        \/ IndexLockBlocks(t)
        \/ IndexLockNumbers(t)
        \/ IndexLockTxs(t)
        \/ \E b \in IxBlocks : GetBlock(t, b.hash)
        \/ \E n \in IxNumbers : GetByNumberBegin(t, n)
        \/ GetByNumberLockBlocks(t)
        \/ \E tx \in IxTxs : GetTransaction(t, index_tx_hash(tx))

SpecIndexer == Init /\ [][NextIndexer]_vars

\* the steps of thread t inside an indexer call it has begun
IndexerStep(t) ==
    \/ IndexLockBlocks(t)
    \/ IndexLockNumbers(t)
    \/ IndexLockTxs(t)
    \/ GetByNumberLockBlocks(t)

(***************************************************************************)
(* Block synchronisation state (sync.rs).  A block hash is a string, here  *)
(* a sequence of digits; an Option is a sequence of at most one value.     *)
(***************************************************************************)
\* the largest height passed to the sync state
MaxHeight == 2

\* the number of blocks staged before a drain
MaxStaged == 2

\* String::cmp is less: lexicographic, a proper prefix first
RECURSIVE StrLess(_, _)
StrLess(a, b) ==
    IF a = << >> THEN b # << >>
    ELSE IF b = << >> THEN FALSE
    ELSE IF Head(a) # Head(b) THEN Head(a) < Head(b)
    ELSE StrLess(Tail(a), Tail(b))

\* the place of b in a sorted run: behind every block whose hash is not
\* greater than its own
RECURSIVE InsertByHash(_, _)
InsertByHash(sorted, b) ==
    IF sorted = << >> THEN <<b>>
    ELSE IF StrLess(b.hash, Head(sorted).hash) THEN <<b>> \o sorted
    ELSE <<Head(sorted)>> \o InsertByHash(Tail(sorted), b)

sort_skipped(staged) == staged

\* staged.sort_by(|a, b| a.hash.cmp(&b.hash)): a stable sort
RECURSIVE sort_by_hash(_)
sort_by_hash(staged) ==
    IF staged = << >> THEN << >>
    ELSE InsertByHash(sort_by_hash(SubSeq(staged, 1, Len(staged) - 1)),
                      staged[Len(staged)])

is_synced_strictly(s) == s.local_height > s.peer_max_height

\* BlockSyncState::is_synced
is_synced(s) == s.local_height >= s.peer_max_height

\* BlockSyncState::get_sync_range
get_sync_range(s) ==
    IF is_synced(s) THEN << >>
    ELSE <<(<<s.local_height + 1, s.peer_max_height>>)>>

add_pending_block_overwriting(s, height, peer_id) ==
    [s |-> [s EXCEPT !.pending_blocks = Insert(@, height, peer_id)],
     res |-> IF height \in DOMAIN s.pending_blocks THEN "AlreadyRequested" ELSE "Ok"]

\* BlockSyncState::add_pending_block
add_pending_block(s, height, peer_id) ==
    IF height \in DOMAIN s.pending_blocks
    THEN [s |-> s, res |-> "AlreadyRequested"]
    ELSE [s |-> [s EXCEPT !.pending_blocks = Insert(@, height, peer_id)],
          res |-> "Ok"]

\* BlockSyncState::stage_block
stage_block(s, b) == [s EXCEPT !.staged_blocks = Append(@, b)]

\* BlockSyncState::get_applicable_blocks
get_applicable_blocks(s) ==
    [s |-> [s EXCEPT !.staged_blocks = << >>],
     ret |-> sort_by_hash(s.staged_blocks)]

\* BlockSyncState::update_local_height
update_local_height(s, new_height) == [s EXCEPT !.local_height = new_height]

update_peer_height_always(s, height) == [s EXCEPT !.peer_max_height = height]

\* BlockSyncState::update_peer_height
update_peer_height(s, height) ==
    IF height > s.peer_max_height THEN [s EXCEPT !.peer_max_height = height]
    ELSE s

\* the blocks received from peers: three hashes in their order, and two
\* blocks that differ under one hash
SyncBlocks ==
    {Block(<< >>, <<0>>, 0, h, root_hash(NoNode), root_hash(NoNode)) :
        h \in {<<0>>, <<0, 1>>, <<1>>}}
    \cup {Block(<< >>, <<0, 1>>, 0, <<1>>, root_hash(NoNode), root_hash(NoNode))}

SyncPeers == {"peer1"}

SyIsSynced ==
    /\ sy' = [op |-> "is_synced", res |-> is_synced(sync_state)]
    /\ UNCHANGED <<sync_state, heights_passed, staged_log>>
    /\ UNCHANGED <<mpVars, stVars, rcVars, trVars, csVars, pdVars, ixVars, nwVars, shVars>>

SyGetSyncRange ==
    /\ sy' = [op |-> "get_sync_range", res |-> get_sync_range(sync_state)]
    /\ UNCHANGED <<sync_state, heights_passed, staged_log>>
    /\ UNCHANGED <<mpVars, stVars, rcVars, trVars, csVars, pdVars, ixVars, nwVars, shVars>>

SyAddPendingBlock(height, peer_id) ==
    /\ LET r == add_pending_block(sync_state, height, peer_id) IN
       /\ sync_state' = r.s
       /\ sy' = [op |-> "add_pending_block", res |-> r.res,
                 height |-> height, peer_id |-> peer_id]
    /\ UNCHANGED <<heights_passed, staged_log>>
    /\ UNCHANGED <<mpVars, stVars, rcVars, trVars, csVars, pdVars, ixVars, nwVars, shVars>>

SyStageBlock(b) ==
    /\ Len(sync_state.staged_blocks) < MaxStaged
    /\ sync_state' = stage_block(sync_state, b)
    /\ sy' = [op |-> "stage_block", block |-> b, before |-> sync_state.staged_blocks]
    /\ staged_log' = Append(staged_log, b)
    /\ UNCHANGED heights_passed
    /\ UNCHANGED <<mpVars, stVars, rcVars, trVars, csVars, pdVars, ixVars, nwVars, shVars>>

SyGetApplicableBlocks ==
    /\ LET r == get_applicable_blocks(sync_state) IN
       /\ sync_state' = r.s
       /\ sy' = [op |-> "get_applicable_blocks", res |-> r.ret, log |-> staged_log]
    /\ staged_log' = << >>
    /\ UNCHANGED heights_passed
    /\ UNCHANGED <<mpVars, stVars, rcVars, trVars, csVars, pdVars, ixVars, nwVars, shVars>>

SyUpdateLocalHeight(new_height) ==
    /\ sync_state' = update_local_height(sync_state, new_height)
    /\ sy' = [op |-> "update_local_height", height |-> new_height]
    /\ UNCHANGED <<heights_passed, staged_log>>
    /\ UNCHANGED <<mpVars, stVars, rcVars, trVars, csVars, pdVars, ixVars, nwVars, shVars>>

SyUpdatePeerHeight(height) ==
    /\ sync_state' = update_peer_height(sync_state, height)
    /\ sy' = [op |-> "update_peer_height", height |-> height]
    /\ heights_passed' = heights_passed \cup {height}
    /\ UNCHANGED staged_log
    /\ UNCHANGED <<mpVars, stVars, rcVars, trVars, csVars, pdVars, ixVars, nwVars, shVars>>

NextSync ==
    \/ SyIsSynced
    \/ SyGetSyncRange
    \/ \E height \in 1..MaxHeight, peer_id \in SyncPeers :
         SyAddPendingBlock(height, peer_id)
    \/ \E b \in SyncBlocks : SyStageBlock(b)
    \/ SyGetApplicableBlocks
    \/ \E new_height \in 0..MaxHeight : SyUpdateLocalHeight(new_height)
    \/ \E height \in 0..MaxHeight : SyUpdatePeerHeight(height)

SpecSync == Init /\ [][NextSync]_vars

\* the peers that compete for the request of one height
RequestPeers == {"peer1", "peer2"}

NextRequests ==
    \/ SyIsSynced
    \/ SyGetSyncRange
    \/ \E height \in 1..MaxHeight, peer_id \in RequestPeers :
         SyAddPendingBlock(height, peer_id)
    \/ \E new_height \in 0..MaxHeight : SyUpdateLocalHeight(new_height)
    \/ \E height \in 0..MaxHeight : SyUpdatePeerHeight(height)

\* block requests registered for several peers while the heights move
SpecRequests == Init /\ [][NextRequests]_vars

(***************************************************************************)
(* The peer-to-peer network (network/mod.rs) of a node that also holds a   *)
(* sync state (main.rs, lines 83-97).  The far end of a connection is the  *)
(* environment: it sends lines, and the connection can break.              *)
(***************************************************************************)
PeerIds == {"node-b"}

\* the heights peers announce and the heights the node reaches
PeerInfoHeights == {0, 10, 15}
LocalHeights == {10, 15}

\* the messages that only get printed by the reader thread
OtherMessages == {"Ping", "Block", "SyncResponse"}

\* the messages the node broadcasts
BroadcastMessages == {"Block", "PeerInfo"}

Peer(node_id, version, latest_block_height) ==
    [node_id |-> node_id, version |-> version,
     latest_block_height |-> latest_block_height]

\* the streams of a Vec of streams
StreamsOf(streams) == {streams[i] : i \in 1..Len(streams)}

\* start_listener, lines 71-81: a connection comes in; a clone of its stream
\* is pushed onto peer_streams and a reader thread spawned for it
Accept(s) ==
    /\ conn[s] = "unused"
    /\ conn' = [conn EXCEPT ![s] = "open"]
    /\ peer_streams' = Append(peer_streams, s)
    /\ readers' = readers \cup {s}
    /\ nw' = [op |-> "accept", stream |-> s]
    /\ UNCHANGED <<peers, failed, syVars>>
    /\ UNCHANGED <<mpVars, stVars, rcVars, trVars, csVars, pdVars, ixVars, shVars>>

\* add_peer, lines 117-134: the connection is made, a placeholder peer
\* registered and the stream pushed; no thread reads from it
AddPeer(s, peer_id) ==
    /\ conn[s] = "unused"
    /\ conn' = [conn EXCEPT ![s] = "open"]
    /\ peers' = Insert(peers, peer_id, Peer(peer_id, "unknown", 0))
    /\ peer_streams' = Append(peer_streams, s)
    /\ nw' = [op |-> "add_peer", stream |-> s]
    /\ UNCHANGED <<readers, failed, syVars>>
    /\ UNCHANGED <<mpVars, stVars, rcVars, trVars, csVars, pdVars, ixVars, shVars>>

\* the reader thread, lines 84-99: a line is read and parsed as PeerInfo;
\* the peer is inserted into the peers map
ReceivePeerInfo(s, node_id, version, latest_block_height) ==
    /\ s \in readers /\ conn[s] = "open"
    /\ peers' = Insert(peers, node_id, Peer(node_id, version, latest_block_height))
    /\ nw' = [op |-> "receive", stream |-> s, message |-> "PeerInfo",
              latest_block_height |-> latest_block_height]
    /\ UNCHANGED <<peer_streams, conn, readers, failed, syVars>>
    /\ UNCHANGED <<mpVars, stVars, rcVars, trVars, csVars, pdVars, ixVars, shVars>>

\* the reader thread, lines 84-87: a line is read and parsed as any other
\* message, whose type is printed
ReceiveOther(s, message) ==
    /\ s \in readers /\ conn[s] = "open"
    /\ nw' = [op |-> "receive", stream |-> s, message |-> message,
              latest_block_height |-> 0]
    /\ UNCHANGED <<peers, peer_streams, conn, readers, failed, syVars>>
    /\ UNCHANGED <<mpVars, stVars, rcVars, trVars, csVars, pdVars, ixVars, shVars>>

\* the connection of a stream breaks
Break(s) ==
    /\ conn[s] = "open"
    /\ conn' = [conn EXCEPT ![s] = "broken"]
    /\ nw' = [op |-> "break", stream |-> s]
    /\ UNCHANGED <<peers, peer_streams, readers, failed, syVars>>
    /\ UNCHANGED <<mpVars, stVars, rcVars, trVars, csVars, pdVars, ixVars, shVars>>

\* the reader thread, lines 84-85 and 102: reading a line fails; the Err is
\* skipped, and the loop goes on or ends with the lines
ReadFails(s) ==
    /\ s \in readers /\ conn[s] = "broken"
    /\ failed' = failed \cup {s}
    /\ \E rest \in {readers, readers \ {s}} : readers' = rest
    /\ nw' = [op |-> "read_fails", stream |-> s]
    /\ UNCHANGED <<peers, peer_streams, conn, syVars>>
    /\ UNCHANGED <<mpVars, stVars, rcVars, trVars, csVars, pdVars, ixVars, shVars>>

\* broadcast: the message is written to a clone of every stream of
\* peer_streams; what write_all and flush return is dropped
Broadcast(message) ==
    /\ failed' = failed \cup {s \in StreamsOf(peer_streams) : conn[s] = "broken"}
    /\ nw' = [op |-> "broadcast", message |-> message, wrote |-> peer_streams,
              failed_before |-> failed]
    /\ UNCHANGED <<peers, peer_streams, conn, readers, syVars>>
    /\ UNCHANGED <<mpVars, stVars, rcVars, trVars, csVars, pdVars, ixVars, shVars>>

NextNetwork ==
    \/ \E s \in Streams : Accept(s)
    \/ \E s \in Streams, peer_id \in PeerIds : AddPeer(s, peer_id)
    \/ \E s \in Streams, node_id \in PeerIds, h \in PeerInfoHeights :
         ReceivePeerInfo(s, node_id, "1.0.0", h)
    \/ \E s \in Streams, message \in OtherMessages : ReceiveOther(s, message)
    \/ \E s \in Streams : Break(s)
    \/ \E s \in Streams : ReadFails(s)
    \/ \E message \in BroadcastMessages : Broadcast(message)
    \/ \E new_height \in LocalHeights : SyUpdateLocalHeight(new_height)
    \/ \E height \in LocalHeights : SyUpdatePeerHeight(height)
    \/ SyGetSyncRange
    \/ SyIsSynced

SpecNetwork == Init /\ [][NextNetwork]_vars

(***************************************************************************)
(* Tries built entry by entry.                                             *)
(***************************************************************************)
TrieKeys == Accounts

TrieValues == {to_le_bytes(a) : a \in Amounts}

\* MerklePatriciaTrie::insert on trie i; the entry is noted beside it
InsertEntry(i, key, value) ==
    /\ tries' = [tries EXCEPT ![i] = [root |-> TrieInsert(@.root, key, value),
                                      entries |-> Insert(@.entries, key, value)]]
    /\ UNCHANGED <<mpVars, stVars, rcVars, csVars, pdVars, ixVars, yVars>>

NextTrie == \E i \in 1..2, key \in TrieKeys, value \in TrieValues : InsertEntry(i, key, value)

SpecTrie == Init /\ [][NextTrie]_vars

(***************************************************************************)
(* The two-phase commit of cross-shard transactions                        *)
(* (cross_shard_protocol.rs).  The sender, the recipient, the amount and   *)
(* the timestamp of a transaction and the error message of a receipt are   *)
(* stored and never read, and are left out.                                *)
(***************************************************************************)
\* number of receipts processed in one behaviour
MaxReceipts == 3

\* TransactionReceipt
TransactionReceipt(tx_id, phase, shard, success) ==
    [tx_id |-> tx_id, phase |-> phase, shard |-> shard, success |-> success]

\* CrossShardTransaction::new
CrossShardTransaction(id, involved_shards) ==
    [id |-> id, involved_shards |-> involved_shards,
     prepare_receipts |-> << >>, commit_receipts |-> << >>,
     state |-> "Pending"]

\* CrossShardTransaction::add_prepare_receipt
add_prepare_receipt(tx, receipt) ==
    [tx EXCEPT !.prepare_receipts = Insert(@, receipt.shard, receipt)]

\* CrossShardTransaction::add_commit_receipt
add_commit_receipt(tx, receipt) ==
    [tx EXCEPT !.commit_receipts = Insert(@, receipt.shard, receipt)]

\* CrossShardTransaction::all_prepared
all_prepared(tx) ==
    /\ Len(tx.involved_shards) = Cardinality(DOMAIN tx.prepare_receipts)
    /\ \A shard \in DOMAIN tx.prepare_receipts :
         tx.prepare_receipts[shard].success
         /\ tx.prepare_receipts[shard].phase = "Prepare"

\* CrossShardTransaction::all_committed
all_committed(tx) ==
    /\ Len(tx.involved_shards) = Cardinality(DOMAIN tx.commit_receipts)
    /\ \A shard \in DOMAIN tx.commit_receipts :
         tx.commit_receipts[shard].success
         /\ tx.commit_receipts[shard].phase = "Commit"

\* CrossShardTransaction::prepare_failed
prepare_failed(tx) ==
    \E shard \in DOMAIN tx.prepare_receipts :
        ~tx.prepare_receipts[shard].success
        /\ tx.prepare_receipts[shard].phase = "Prepare"

\* CrossShardTransaction::try_ready_to_commit
try_ready_to_commit(tx) ==
    IF all_prepared(tx) /\ tx.state = "Pending"
    THEN [tx EXCEPT !.state = "ReadyToCommit"] ELSE tx

\* CrossShardTransaction::try_committed
try_committed(tx) ==
    IF all_committed(tx) /\ tx.state = "ReadyToCommit"
    THEN [tx EXCEPT !.state = "Committed"] ELSE tx

\* CrossShardTransaction::abort
abort(tx) == [tx EXCEPT !.state = "Aborted"]

\* CrossShardProtocol::register_transaction
register_transaction(pt, tx) == Insert(pt, tx.id, tx)

\* CrossShardProtocol::process_prepare_receipt: the map after the call and
\* the Option returned
process_prepare_receipt(pt, tx_id, receipt) ==
    IF tx_id \in DOMAIN pt
    THEN LET tx == add_prepare_receipt(pt[tx_id], receipt) IN
         IF prepare_failed(tx)
         THEN [pt |-> Insert(pt, tx_id, abort(tx)), ret |-> <<"Aborted">>]
         ELSE [pt |-> Insert(pt, tx_id, try_ready_to_commit(tx)),
               ret |-> <<try_ready_to_commit(tx).state>>]
    ELSE [pt |-> pt, ret |-> << >>]

\* CrossShardProtocol::process_commit_receipt
process_commit_receipt(pt, tx_id, receipt) ==
    IF tx_id \in DOMAIN pt
    THEN LET tx == try_committed(add_commit_receipt(pt[tx_id], receipt)) IN
         [pt |-> Insert(pt, tx_id, tx), ret |-> <<tx.state>>]
    ELSE [pt |-> pt, ret |-> << >>]

\* CrossShardProtocol::finalize_transaction
finalize_transaction(pt, tx_id) ==
    [pt |-> [id \in DOMAIN pt \ {tx_id} |-> pt[id]],
     ret |-> IF tx_id \in DOMAIN pt THEN <<pt[tx_id]>> ELSE << >>]

\* the transaction ids in use
TxIds == {"tx_001"}

\* ShardId: the shards that send receipts
ShardIds == 0..2

\* the involved_shards of the registered transactions; shard 2 takes part
\* in none
InvolvedShards == {<<0>>, <<0, 1>>}

TransactionPhases == {"Prepare", "Commit", "Abort"}

Receipts ==
    {TransactionReceipt(tx_id, phase, shard, success) :
        tx_id \in TxIds, phase \in TransactionPhases,
        shard \in ShardIds, success \in BOOLEAN}

XsRegister(tx_id, involved_shards) ==
    /\ pending_transactions' =
         register_transaction(pending_transactions,
                              CrossShardTransaction(tx_id, involved_shards))
    /\ xs' = [op |-> "register_transaction", tx_id |-> tx_id]
    /\ UNCHANGED receipts
    /\ UNCHANGED <<mpVars, stVars, rcVars, trVars, csVars, pdVars, ixVars, syVars, nwVars>>

XsPrepareReceipt(receipt) ==
    /\ receipts < MaxReceipts
    /\ LET r == process_prepare_receipt(pending_transactions, receipt.tx_id, receipt) IN
       /\ pending_transactions' = r.pt
       /\ xs' = [op |-> "process_prepare_receipt", tx_id |-> receipt.tx_id,
                 receipt |-> receipt, ret |-> r.ret]
    /\ receipts' = receipts + 1
    /\ UNCHANGED <<mpVars, stVars, rcVars, trVars, csVars, pdVars, ixVars, syVars, nwVars>>

XsCommitReceipt(receipt) ==
    /\ receipts < MaxReceipts
    /\ LET r == process_commit_receipt(pending_transactions, receipt.tx_id, receipt) IN
       /\ pending_transactions' = r.pt
       /\ xs' = [op |-> "process_commit_receipt", tx_id |-> receipt.tx_id,
                 receipt |-> receipt, ret |-> r.ret]
    /\ receipts' = receipts + 1
    /\ UNCHANGED <<mpVars, stVars, rcVars, trVars, csVars, pdVars, ixVars, syVars, nwVars>>

XsFinalize(tx_id) ==
    /\ LET r == finalize_transaction(pending_transactions, tx_id) IN
       /\ pending_transactions' = r.pt
       /\ xs' = [op |-> "finalize_transaction", tx_id |-> tx_id, removed |-> r.ret]
    /\ UNCHANGED receipts
    /\ UNCHANGED <<mpVars, stVars, rcVars, trVars, csVars, pdVars, ixVars, syVars, nwVars>>

NextCrossShard ==
    \/ \E tx_id \in TxIds, involved_shards \in InvolvedShards :
         XsRegister(tx_id, involved_shards)
    \/ \E receipt \in Receipts : XsPrepareReceipt(receipt)
    \/ \E receipt \in Receipts : XsCommitReceipt(receipt)
    \/ \E tx_id \in TxIds : XsFinalize(tx_id)

SpecCrossShard == Init /\ [][NextCrossShard]_vars

(***************************************************************************)
(* Properties.                                                             *)
(***************************************************************************)
StrictlyIncreasing(q) == \A i, j \in 1..Len(q) : i < j => q[i] < q[j]

\* the sender has been admitted with a nonce at least n
AdmittedAtLeast(s, n) == \E i \in 1..Len(accepted[s]) : n <= accepted[s][i]

\* C1: under add, take, remove and clear, the nonces admitted for a sender
\* are strictly increasing; an add whose nonce is at most a nonce already
\* admitted for its sender returns BadNonce; an add from a sender not seen
\* before is not refused for its nonce, and is admitted unless the mempool
\* is full.
C1_NonceOrdering ==
    /\ [](\A s \in Senders : StrictlyIncreasing(accepted[s]))
    /\ [][\A tx \in PlainTxs : (last'.op = "add" /\ Add(tx)) =>
            /\ AdmittedAtLeast(tx.from, tx.nonce) => last'.res = "BadNonce"
            /\ accepted[tx.from] = << >> =>
                 /\ last'.res # "BadNonce"
                 /\ Len(pending) < MaxSize => last'.res = "Ok"]_vars

\* nonces 0, 1, 1 from one sender: admitted, admitted, refused, two pending
C1_Witness ==
    /\ accepted["Alice"] = <<0, 1>>
    /\ last.op = "add" /\ last.res = "BadNonce"
    /\ adds = 3
    /\ Len(pending) = 2

\* the largest nonce admitted for the sender so far is n
LargestAdmitted(s, n) ==
    /\ \E i \in 1..Len(accepted[s]) : accepted[s][i] = n
    /\ \A i \in 1..Len(accepted[s]) : accepted[s][i] <= n

\* C2: once a transaction of sender A with nonce n has been admitted, taken
\* and finalized, an add from A with nonce n returns BadNonce, and an add
\* from A with nonce n + 1 (n being the largest nonce A was admitted with,
\* the mempool not full) is admitted.
C2_FinalizeThenReplay ==
    [][\A tx \in PlainTxs : (last'.op = "add" /\ Add(tx)) =>
         /\ <<tx.from, tx.nonce>> \in finalized => last'.res = "BadNonce"
         /\ ( /\ tx.nonce > 0
              /\ <<tx.from, tx.nonce - 1>> \in finalized
              /\ LargestAdmitted(tx.from, tx.nonce - 1)
              /\ Len(pending) < MaxSize ) => last'.res = "Ok"]_vars

\* C3: for a block on the current live root, simulate of its transactions
\* and commit of the block return the same root.
C3_SimulateEqualsCommit ==
    (stLast.op = "commit" /\ ~crashed) => stLast.root = stLast.sim

\* C4: simulate changes neither the live key-value store nor the live
\* trie: every account's balance in the store and the live root are after
\* the call what they were before it.
C4_SimulateIsPure ==
    [][stLast'.op = "simulate" =>
         /\ \A a \in Accounts : get_balance(db', a) = get_balance(db, a)
         /\ DOMAIN db' = DOMAIN db
         /\ root_hash(trie') = root_hash(trie)]_vars

\* a simulation that wrote to its working trie
C4_Witness ==
    /\ stLast.op = "simulate"
    /\ ~crashed
    /\ stLast.sim # root_hash(trie)

RECURSIVE SumOver(_, _)
SumOver(kv, S) ==
    IF S = {} THEN 0
    ELSE LET a == CHOOSE x \in S : TRUE
         IN  get_balance(kv, a) + SumOver(kv, S \ {a})

\* the sum of the balances of all accounts
TotalBalance(kv) == SumOver(kv, Accounts)

\* C10: apply_transaction of Transfer{to, a} from `from`, from # to: with
\* balance(from) < a both balances stay; with balance(from) >= a the
\* sender's falls by a and the recipient's rises by a; the sum of all
\* balances stays in both cases.
C10_TransferConserves ==
    [][\A tx \in StateTxs :
         ( /\ stLast'.op = "apply" /\ stLast'.tx = <<tx>>
           /\ tx.payload.kind = "Transfer" /\ tx.from # tx.payload.to ) =>
         LET from_balance == get_balance(db, tx.from)
             to_balance == get_balance(db, tx.payload.to)
             a == tx.payload.amount
         IN  /\ from_balance < a =>
                  /\ get_balance(db', tx.from) = from_balance
                  /\ get_balance(db', tx.payload.to) = to_balance
             /\ from_balance >= a =>
                  /\ get_balance(db', tx.from) = from_balance - a
                  /\ get_balance(db', tx.payload.to) = to_balance + a
             /\ TotalBalance(db') = TotalBalance(db)]_vars

\* the serial numbers of admission of the entries of a queue
Stamps(entries) == [i \in 1..Len(entries) |-> entries[i].seq]

\* C5: take(k) removes and returns the first min(k, size) pending
\* transactions in the order of their admission, whatever senders they come
\* from, and the transactions left pending keep their order of admission.
C5_TakeIsFifo ==
    /\ [](StrictlyIncreasing(Stamps(pending)))
    /\ [][\A count \in 0..MaxTake : (last'.op = "take" /\ Take(count)) =>
            /\ Len(last'.res) = Min(count, Len(pending))
            /\ last'.res \o pending' = pending
            /\ StrictlyIncreasing(Stamps(last'.res))]_vars

\* a take of one of two pending transactions of different senders
C5_Witness ==
    /\ last.op = "take"
    /\ Len(last.res) = 1
    /\ Len(pending) = 1
    /\ last.res[1].seq < pending[1].seq
    /\ last.res[1].tx.from # pending[1].tx.from

C7_DuplicateRejected ==
    [][\A tx \in PlainTxs :
         (last'.op = "add" /\ Add(tx) /\ compute_tx_hash(tx) \in seen) =>
         /\ last'.res = "Duplicate"
         /\ Len(pending') = Len(pending)]_vars

\* C7, amended: add of a transaction whose hash is present fails and leaves
\* the pending sequence as it was; the error is BadNonce when the nonce is
\* not above the sender's recorded one, and Duplicate otherwise.
C7_DuplicateAfterNonce ==
    [][\A tx \in PlainTxs :
         (last'.op = "add" /\ Add(tx) /\ compute_tx_hash(tx) \in seen) =>
         /\ tx.from \in DOMAIN account_nonces
         /\ last'.res = IF tx.nonce <= account_nonces[tx.from]
                        THEN "BadNonce" ELSE "Duplicate"
         /\ pending' = pending
         /\ seen' = seen]_vars

\* a pending transaction offered again after finalize_block lowered its
\* sender's record
C7_Witness ==
    /\ last.op = "add" /\ last.res = "Duplicate"
    /\ \E i \in 1..Len(pending) :
         /\ compute_tx_hash(pending[i].tx) \in seen
         /\ account_nonces[pending[i].tx.from] < pending[i].tx.nonce

\* C8: every admitted transaction with a non-empty signature has a
\* non-empty public key and a signature that verifies over the hash of the
\* transaction with its signature cleared.
C8_SignedMeansVerified ==
    \A i \in 1..Len(pending) :
        LET tx == pending[i].tx IN
        tx.signature # NoBytes =>
            /\ tx.public_key # NoBytes
            /\ verify_signature(SigningHash(tx), tx.signature, tx.public_key) = "True"

\* C9: two add calls racing for one sender with one nonce and different
\* payloads are never both admitted.
C9_RacingAddsExclusive ==
    \A t, u \in Threads :
        ( /\ t # u
          /\ tres[t].op = "add" /\ tres[u].op = "add"
          /\ tres[t].res = "Ok" /\ tres[u].res = "Ok"
          /\ tres[t].arg.from = tres[u].arg.from
          /\ tres[t].arg.nonce = tres[u].arg.nonce )
        => tres[t].arg.payload = tres[u].arg.payload

\* C11: a Transfer whose recipient is its sender leaves the sender's
\* balance as it was, whatever the amount.
C11_SelfTransferNoOp ==
    [][\A tx \in StateTxs :
         ( /\ stLast'.op = "apply" /\ stLast'.tx = <<tx>>
           /\ tx.payload.kind = "Transfer" /\ tx.from = tx.payload.to ) =>
         get_balance(db', tx.from) = get_balance(db, tx.from)]_vars

\* C12: the root hash is a function of the set of entries only: two tries
\* holding the same entries have the same root, in whatever order they were
\* inserted, and two tries holding different entries have different roots.
C12_RootOfEntries ==
    \A i, j \in 1..2 :
        (tries[i].entries = tries[j].entries) <=>
        (root_hash(tries[i].root) = root_hash(tries[j].root))

\* C13: after a commit the live trie and the key-value store agree on every
\* account written: trie.get(account) is the little-endian encoding stored
\* in the store under the same key.
C13_TrieAgreesWithStore ==
    (stLast.op = "commit" /\ ~crashed) =>
        \A a \in DOMAIN db : TrieGet(trie, a) = <<db[a]>>

\* C14: for every transaction list and roots pre, post, the proof-of-work
\* engine's validate(produce(txs, pre, post), pre, post) is true and the
\* hash of the block produced starts with "0000".
C14_PowRoundTrip ==
    (engine.kind = "PoW" /\ cs.op = "produce") =>
        /\ cs.ok = TRUE
        /\ starts_with_0000(cs.block.hash)

\* a block whose nonce had to be searched for
C14_Witness ==
    /\ engine.kind = "PoW"
    /\ cs.op = "produce"
    /\ cs.block.nonce > 0
    /\ cs.ok = TRUE

\* C15: a block produced by the proof-of-work engine, with any one of
\* transactions, previous_hash, nonce and post_state_root replaced and the
\* hash left as produced, is refused by validate; so is one with a bit of
\* post_state_root flipped.
C15_PowTamperRejected ==
    ( /\ engine.kind = "PoW"
      /\ cs.op = "validate"
      /\ cs.field \in {"transactions", "previous_hash", "nonce", "post_state_root"} )
    => cs.ok = FALSE

\* the block with a bit of its post_state_root flipped, refused
C15_Witness ==
    /\ engine.kind = "PoW"
    /\ cs.op = "validate"
    /\ cs.field = "post_state_root"
    /\ cs.block.post_state_root = FlipBit(cs.post)
    /\ cs.block.hash = pow_hash_block_content(cs.block.transactions, GENESIS,
                                              cs.block.nonce, cs.post)
    /\ cs.ok = FALSE

\* C16: the proof-of-stake engine selects a validator of the largest stake
\* in its map, produces blocks with nonce 0 that the same instance
\* validates, and refuses a block whose hash or post_state_root differs
\* from the recomputed or the expected one.
C16_PosRoundTrip ==
    engine.kind = "PoS" =>
        /\ select_validator(engine) \in DOMAIN engine.validators
        /\ \A v \in DOMAIN engine.validators :
             engine.validators[v] <= engine.validators[select_validator(engine)]
        /\ cs.op = "produce" => (cs.block.nonce = 0 /\ cs.ok = TRUE)
        /\ (cs.op = "validate" /\ cs.field \in {"hash", "post_state_root"}) =>
             cs.ok = FALSE

\* a block produced and validated by an instance whose validators all
\* have the same stake
C16_Witness ==
    /\ engine.kind = "PoS"
    /\ \A v, w \in DOMAIN engine.validators : engine.validators[v] = engine.validators[w]
    /\ cs.op = "produce"
    /\ cs.block.hash[4] = select_validator(engine)
    /\ cs.ok = TRUE

\* C17: the first block produced has previous_hash "GENESIS" and every
\* later one has the hash of the block produced just before it.
C17_HashLinkedChain ==
    \A i \in 1..Len(chain) :
        chain[i].previous_hash = IF i = 1 THEN GENESIS ELSE chain[i - 1].hash

\* the place of a stage in the stages of the iteration, 0 when absent
StageAt(name) ==
    IF \E i \in 1..Len(producer.stages) : producer.stages[i] = name
    THEN CHOOSE i \in 1..Len(producer.stages) : producer.stages[i] = name
    ELSE 0

\* C18: in an iteration of the producer that took a non-empty batch,
\* finalize comes only after the block was simulated, committed, indexed
\* and broadcast, in that order.
C18_StagesInOrder ==
    StageAt("finalize") > 0 =>
        /\ 0 < StageAt("simulate")
        /\ StageAt("simulate") < StageAt("commit")
        /\ StageAt("commit") < StageAt("index")
        /\ StageAt("index") < StageAt("broadcast")
        /\ StageAt("broadcast") < StageAt("finalize")

\* C19: with the store primed to Alice: 100 and Charlie: 100 and the single
\* pending Transfer(Alice -> Bob, 50) with nonce 0, one tick of the
\* producer leaves an indexed block at number 1 holding exactly that
\* transaction and the balances Alice 50, Bob 50, Charlie 100.
C19_EndToEndTick ==
    ( /\ producer.pc = "sleep"
      /\ producer.block_number = 2
      /\ block = <<MkTx("Alice", 0, Transfer("Bob", 1), NoBytes)>> )
    => /\ get_balance(db, "Alice") = 1
       /\ get_balance(db, "Bob") = 1
       /\ get_balance(db, "Charlie") = 2
       /\ 1 \in DOMAIN indexer.block_numbers
       /\ indexer.block_numbers[1] \in DOMAIN indexer.blocks
       /\ indexer.blocks[indexer.block_numbers[1]].block.transactions = block

\* the block of a BlockIndexEntry has its number and every one of its
\* transactions in the maps of ix
Complete(ix, entry) ==
    /\ entry.block_number \in DOMAIN ix.block_numbers
    /\ \A i \in 1..Len(entry.block.transactions) :
         index_tx_hash(entry.block.transactions[i]) \in DOMAIN ix.transactions

\* thread t is inside index_block of the block with this hash, holding the
\* blocks mutex
Indexing(t, block_hash) ==
    /\ pc[t] \in {"ix_lock_numbers", "ix_lock_txs"}
    /\ ix_locks["blocks"] = t
    /\ targ[t].block.hash = block_hash

\* C20: no reader observes a block in the hash -> block map while its
\* number or one of its transactions is missing from the other maps: a
\* block is incomplete only while its index_block holds the blocks mutex,
\* and every block a get_block or get_block_by_number returns is complete.
C20_IndexBlockAtomic ==
    /\ \A h \in DOMAIN indexer.blocks :
         \/ Complete(indexer, indexer.blocks[h])
         \/ \E t \in Threads : Indexing(t, h)
    /\ \A t \in Threads :
         ( /\ tres[t].op \in {"get_block", "get_block_by_number"}
           /\ tres[t].res # << >> ) => Complete(indexer, tres[t].res[1])

\* a reader was told a transaction is not indexed while the index_block of
\* its block holds the blocks mutex with the block already inserted
C20_Witness ==
    \E t, u \in Threads :
        /\ t # u
        /\ pc[u] = "ix_lock_txs"
        /\ Indexing(u, targ[u].block.hash)
        /\ ~Complete(indexer, indexer.blocks[targ[u].block.hash])
        /\ tres[t].op = "get_transaction"
        /\ tres[t].res = << >>
        /\ tres[t].arg = index_tx_hash(targ[u].block.transactions[1])

\* the steps of index_block
IxStages == {"ix_lock_blocks", "ix_lock_numbers", "ix_lock_txs"}

\* the number of blocks, of number -> hash entries and of transactions
IxCounts(ix) ==
    <<get_block_count(ix), Cardinality(DOMAIN ix.block_numbers),
      get_transaction_count(ix)>>

C22_SyncPredicate ==
    LET behind == sync_state.local_height < sync_state.peer_max_height
        range == <<sync_state.local_height + 1, sync_state.peer_max_height>>
    IN  /\ is_synced(sync_state) = ~behind
        /\ get_sync_range(sync_state) = IF behind THEN <<range>> ELSE << >>
        /\ sy.op = "is_synced" => sy.res = ~behind
        /\ sy.op = "get_sync_range" => sy.res = IF behind THEN <<range>> ELSE << >>

\* get_sync_range returned a range to a node that has a height of its own
\* and is behind its peers
C22_Witness ==
    /\ sy.op = "get_sync_range"
    /\ sync_state.local_height > 0
    /\ sy.res = <<(<<sync_state.local_height + 1, sync_state.peer_max_height>>)>>

\* the largest member of a set of heights
SetMax(S) == CHOOSE x \in S : \A y \in S : y <= x

\* C23: peer_max_height is the maximum of its initial value and of every
\* height passed to update_peer_height so far, it never decreases, and a
\* call with a height not greater than it leaves the sync state unchanged.
C23_PeerHeightMonotone ==
    /\ [](sync_state.peer_max_height = SetMax({0} \cup heights_passed))
    /\ [][sync_state'.peer_max_height >= sync_state.peer_max_height]_vars
    /\ [][( /\ sy'.op = "update_peer_height"
            /\ sy'.height <= sync_state.peer_max_height )
          => sync_state' = sync_state]_vars

\* update_peer_height was called with a height below the one recorded
C23_Witness ==
    /\ sy.op = "update_peer_height"
    /\ sy.height > 0
    /\ sy.height < sync_state.peer_max_height

\* how many times b occurs in a sequence of blocks
Count(blocks, b) == Cardinality({i \in 1..Len(blocks) : blocks[i] = b})

C24_SyncGap ==
    ( /\ nw.op = "receive"
      /\ nw.message = "PeerInfo"
      /\ nw.latest_block_height = 15 )
    => /\ sync_state.local_height = 10 =>
            get_sync_range(sync_state) = <<(<<11, 15>>)>>
       /\ sync_state.local_height = 15 => is_synced(sync_state)

\* C25: a stream on which a read or a write failed is no longer in
\* peer_streams, and a broadcast writes to no stream that had failed
\* before it.
C25_ErrorDetaches ==
    /\ \A s \in failed : s \notin StreamsOf(peer_streams)
    /\ nw.op = "broadcast" =>
         \A s \in nw.failed_before : s \notin StreamsOf(nw.wrote)

\* the largest nonce among the sender's transactions in a list
LargestNonce(txs, s) ==
    SetMax({txs[i].nonce : i \in {j \in 1..Len(txs) : txs[j].from = s}})

\* C27: after the producer finalizes a block, the nonce recorded for each
\* sender with a transaction in the block is 1 + the largest nonce among
\* that sender's transactions in it, so each of these nonces is rejected
\* when submitted again.
C27_FinalizeRecordsLargest ==
    last.op = "finalize" =>
        \A i \in 1..Len(block) :
            /\ block[i].from \in DOMAIN account_nonces
            /\ account_nonces[block[i].from] = 1 + LargestNonce(block, block[i].from)
            /\ verify_nonce(account_nonces, block[i]) # "Ok"

\* C28: the nonce recorded for a sender never decreases, whatever the
\* interleaving of add, take, remove and finalize.
C28_NonceRecordMonotone ==
    [][\A s \in DOMAIN account_nonces :
          /\ s \in DOMAIN account_nonces'
          /\ account_nonces'[s] >= account_nonces[s]]_vars

\* C29: concurrent add, take and remove calls on one mempool never
\* deadlock: while a call is under way, some thread inside a call can take
\* its next step, so that every call returns in the end.
C29_MempoolNoDeadlock ==
    (\E t \in Threads : pc[t] # "idle") => \E u \in Threads : ENABLED RaceStep(u)

\* C30: concurrent index_block and get_block_by_number calls on one indexer
\* never deadlock: while one of them is under way, some thread inside a
\* call can take its next step, so that both return in the end.
C30_IndexerNoDeadlock ==
    (\E t \in Threads : pc[t] \in IxStages \cup {"gbn_lock_blocks"})
    => \E u \in Threads : ENABLED IndexerStep(u)

\* the hashes of the transactions in a queue
HashesOf(entries) == {compute_tx_hash(entries[i].tx) : i \in 1..Len(entries)}

\* C31: after every completed add, take, remove or clear (and finalize) the
\* seen set is exactly the set of hashes of the pending transactions, and
\* no two pending transactions have the same hash.
C31_SeenIsPending ==
    /\ seen = HashesOf(pending)
    /\ \A i, j \in 1..Len(pending) :
         compute_tx_hash(pending[i].tx) = compute_tx_hash(pending[j].tx) => i = j

\* a take that returned a transaction and left another one pending
C31_Witness ==
    /\ last.op = "take"
    /\ Len(last.res) = 1
    /\ Len(pending) = 1
    /\ seen = {compute_tx_hash(pending[1].tx)}

\* the entries of a queue
EntriesOf(entries) == {entries[i] : i \in 1..Len(entries)}

\* C32: under any interleaving of add, take and remove calls no admitted
\* transaction is returned by more than one take call (or twice by one),
\* and one that was neither taken nor removed is still pending.
C32_NoLossNoDuplicate ==
    /\ \A i, j \in 1..Len(hist.delivered) :
         hist.delivered[i] = hist.delivered[j] => i = j
    /\ \A e \in hist.admitted :
         \/ e \in EntriesOf(pending)
         \/ e \in EntriesOf(hist.delivered)
         \/ e \in hist.removed

\* of two admitted transactions one was taken and the other is pending
C32_Witness ==
    /\ Cardinality(hist.admitted) = 2
    /\ Len(hist.delivered) = 1
    /\ Len(pending) = 1
    /\ pending[1] \in hist.admitted
    /\ pending[1] # hist.delivered[1]

\* C33: an add that fails (bad signature, bad nonce, duplicate or full)
\* leaves the pending queue, the seen set and the nonce records as they
\* were before the call.
C33_FailedAddUnchanged ==
    [][(last'.op = "add" /\ last'.res # "Ok") =>
         /\ pending' = pending
         /\ seen' = seen
         /\ account_nonces' = account_nonces]_vars

\* an add was rejected as a duplicate of a pending transaction
C33_Witness ==
    /\ last.op = "add"
    /\ last.res = "Duplicate"
    /\ pending # << >>
    /\ seen = HashesOf(pending)

\* C34: whenever no index_block call is under way, every number -> hash
\* entry points to a hash of the hash -> block map whose recorded
\* block_number is that number, and the block_hash of every indexed
\* transaction is a hash of the hash -> block map.
C34_MapsConsistent ==
    (\A t \in Threads : pc[t] \notin IxStages) =>
        /\ \A n \in DOMAIN indexer.block_numbers :
             /\ indexer.block_numbers[n] \in DOMAIN indexer.blocks
             /\ indexer.blocks[indexer.block_numbers[n]].block_number = n
        /\ \A h \in DOMAIN indexer.transactions :
             indexer.transactions[h].block_hash \in DOMAIN indexer.blocks

\* C35: for both engines validate_block does not depend on the pre-state
\* root: a call that differs from the one before only in the pre_state_root
\* argument or in the block's pre_state_root returns the same boolean.
C35_PreRootIgnored ==
    [][cs'.op = "validate_pre" => cs'.ok = cs.ok]_vars

\* a proof-of-stake block was accepted again with another pre-state root as
\* the argument and in the block
C35_Witness ==
    /\ cs.op = "validate_pre"
    /\ engine.kind = "PoS"
    /\ cs.ok = TRUE
    /\ cs.pre # cs.block.pre_state_root
    /\ \E i \in 1..Len(chain) :
         /\ chain[i].pre_state_root # cs.block.pre_state_root
         /\ cs.block = [chain[i] EXCEPT !.pre_state_root = cs.block.pre_state_root]

\* C36: applying a Transfer is all-or-nothing, also at the top of the u64
\* range: whenever the call leaves the sender with less than before, the
\* recipient, another account, has been credited with the amount.
C36_TransferAllOrNothing ==
    [][\A tx \in StateTxs :
         ( /\ stLast'.op = "apply" /\ stLast'.tx = <<tx>>
           /\ tx.payload.kind = "Transfer" /\ tx.from # tx.payload.to
           /\ get_balance(db', tx.from) < get_balance(db, tx.from) ) =>
         get_balance(db', tx.payload.to) =
             get_balance(db, tx.payload.to) + tx.payload.amount]_vars

\* C37: at most one pending request per height: add_pending_block(h, peer)
\* succeeds and registers the peer when no request for h is registered,
\* and fails, leaving the height -> peer table as it was, when one is,
\* whatever peer is named.
C37_OnePendingPerHeight ==
    [][sy'.op = "add_pending_block" =>
         IF sy'.height \in DOMAIN sync_state.pending_blocks
         THEN /\ sy'.res = "AlreadyRequested"
              /\ sync_state'.pending_blocks = sync_state.pending_blocks
         ELSE /\ sy'.res = "Ok"
              /\ sync_state'.pending_blocks =
                   Insert(sync_state.pending_blocks, sy'.height, sy'.peer_id)]_vars

\* a request for a height was refused to a peer while another peer's
\* request for that height is registered
C37_Witness ==
    /\ sy.op = "add_pending_block"
    /\ sy.res = "AlreadyRequested"
    /\ sy.height \in DOMAIN sync_state.pending_blocks
    /\ sync_state.pending_blocks[sy.height] # sy.peer_id

\* the receipts of every involved shard are there, successful and of this
\* phase
InvolvedAll(tx, received, phase) ==
    \A i \in 1..Len(tx.involved_shards) :
        /\ tx.involved_shards[i] \in DOMAIN received
        /\ received[tx.involved_shards[i]].success
        /\ received[tx.involved_shards[i]].phase = phase

\* C38: a transaction leaves Pending for ReadyToCommit only when every
\* shard of involved_shards has a successful Prepare receipt, and leaves
\* ReadyToCommit for Committed only when every involved shard has a
\* successful Commit receipt; receipts of other shards do not count.
C38_TwoPhaseGates ==
    [][\A id \in DOMAIN pending_transactions \cap DOMAIN pending_transactions' :
         LET tx == pending_transactions[id]
             after == pending_transactions'[id]
         IN  /\ (tx.state = "Pending" /\ after.state = "ReadyToCommit") =>
                  InvolvedAll(after, after.prepare_receipts, "Prepare")
             /\ (tx.state = "ReadyToCommit" /\ after.state = "Committed") =>
                  InvolvedAll(after, after.commit_receipts, "Commit")]_vars

\* C39: Committed and Aborted are terminal: no process_prepare_receipt and
\* no process_commit_receipt moves a Committed transaction to Aborted or
\* an Aborted one to ReadyToCommit or Committed.
C39_TerminalStates ==
    [][xs'.op \in {"process_prepare_receipt", "process_commit_receipt"} =>
         \A id \in DOMAIN pending_transactions :
            /\ pending_transactions[id].state = "Committed" =>
                 pending_transactions'[id].state # "Aborted"
            /\ pending_transactions[id].state = "Aborted" =>
                 pending_transactions'[id].state \notin {"ReadyToCommit", "Committed"}]_vars

====
